---- MODULE Spec2Model ----
(***************************************************************************)
(* Model of the AIG optimisation core of the vendored ABC library          *)
(* (src/lib/abc/c): the AIG manager with structural hashing (aig/aig),     *)
(* the ABC network with fanin/fanout bookkeeping (base/abc), the MFFC      *)
(* reference counting (abcRefs.c) and the passes built on them.            *)
(*                                                                         *)
(* An edge (tagged pointer) is the literal 2*Id + complement bit; NULL is  *)
(* the literal -1.                                                         *)
(***************************************************************************)
EXTENDS Integers, Sequences, FiniteSets, TLC

VARIABLES aig, ntk, man

vars == << aig, ntk, man >>

(***************************************************************************)
(* Bounds                                                                  *)
(***************************************************************************)
\* largest number of objects of one AIG manager (constant node included)
MaxAigObjs == 6
\* largest number of combinational inputs of one AIG manager
MaxAigCis == 3
\* largest size of the object array of a network (constant node included)
MaxObjs == 6
\* largest number of primary inputs and of primary outputs of a network
MaxPis == 2
MaxPos == 1
\* largest value of the traversal Id counter of a network
MaxTravId == 2

(***************************************************************************)
(* Tagged pointers (aig.h 187-190)                                         *)
(***************************************************************************)
NULL == 0 - 1

Aig_Regular(p) == p - (p % 2)

Aig_Not(p) == IF p % 2 = 0 THEN p + 1 ELSE p - 1

(***************************************************************************)
(* The AIG manager (aig.h 95-160, aigMan.c 39-66)                          *)
(*   vObjs : the objects by Id (entry Id+1 of the sequence)                *)
(*   table : the Ids of the nodes held by the structural hash table        *)
(***************************************************************************)

Aig_ManStart ==
    [ vObjs |-> << [Type |-> "CONST1", pFanin0 |-> NULL, pFanin1 |-> NULL,
                    nRefs |-> 0, fPhase |-> 1] >>,
      table |-> {} ]

Aig_ManConst1 == (2 * 0)

Aig_ManAnds(p) == ({ id \in 0 .. Len(p.vObjs) - 1 : (p.vObjs[id + 1]).Type = "AND" })

\* every edge a caller can hold: both polarities of every live object
Aig_ManEdges(p) ==
    { l \in 0 .. 2 * Len(p.vObjs) - 1 : (p.vObjs[((l \div 2)) + 1]).Type # "NONE" }


(***************************************************************************)
(* Aig_ObjCreateGhost (aig.h 279-298): the smaller-Id fanin comes first    *)
(***************************************************************************)
Aig_ObjCreateGhostNoSwap(p0, p1) ==
    [Type |-> "AND", pFanin0 |-> p0, pFanin1 |-> p1]

Aig_ObjCreateGhost(p0, p1) ==
    IF p1 = NULL \/ (Aig_Regular(p0) \div 2) < (Aig_Regular(p1) \div 2)
    THEN [Type |-> "AND", pFanin0 |-> p0, pFanin1 |-> p1]
    ELSE [Type |-> "AND", pFanin0 |-> p1, pFanin1 |-> p0]

(***************************************************************************)
(* Aig_TableLookup: the node of the table with the ghost's fanins, or NULL *)
(***************************************************************************)
Aig_TableLookup(p, pGhost) ==
    LET hits == { id \in p.table : /\ p.vObjs[id + 1].Type = pGhost.Type
                                   /\ p.vObjs[id + 1].pFanin0 = pGhost.pFanin0
                                   /\ p.vObjs[id + 1].pFanin1 = pGhost.pFanin1 }
    IN IF hits = {} THEN NULL
       ELSE 2 * (CHOOSE id \in hits : \A o \in hits : id <= o)

(***************************************************************************)
(* Aig_ObjCreate: allocate (the new object gets the next Id, as in         *)
(* Aig_ManFetchMemory), copy the ghost's fanins, compute the phase,        *)
(* connect the fanins (their reference counts grow), insert into the table *)
(***************************************************************************)
Aig_ObjCreate(p, pGhost) ==
    LET id   == Len(p.vObjs)
        PhaseReal(e) == (p.vObjs[(e \div 2) + 1].fPhase + (e % 2)) % 2
        pObj == [Type |-> pGhost.Type,
                 pFanin0 |-> pGhost.pFanin0, pFanin1 |-> pGhost.pFanin1,
                 nRefs |-> 0,
                 fPhase |-> PhaseReal(pGhost.pFanin0) * PhaseReal(pGhost.pFanin1)]
        \* Aig_ObjRef of the object an edge refers to
        Ref(vObjs, e) == [vObjs EXCEPT ![(e \div 2) + 1].nRefs = @ + 1]
        v1   == Append(p.vObjs, pObj)
        v2   == Ref(Ref(v1, pGhost.pFanin0), pGhost.pFanin1)
    IN [man |-> [vObjs |-> v2, table |-> p.table \cup {id}],
        res |-> 2 * id]

\* the conjunction without the tests for equal and for complementary edges
Aig_AndNoTrivial(p, p0, p1) ==
    IF Aig_Regular(p0) = Aig_ManConst1
         THEN [man |-> p, res |-> IF p0 = Aig_ManConst1 THEN p1 ELSE (Aig_Not(Aig_ManConst1))]
    ELSE IF Aig_Regular(p1) = Aig_ManConst1
         THEN [man |-> p, res |-> IF p1 = Aig_ManConst1 THEN p0 ELSE (Aig_Not(Aig_ManConst1))]
    ELSE LET pGhost  == Aig_ObjCreateGhost(p0, p1)
             pResult == Aig_TableLookup(p, pGhost)
         IN IF pResult # NULL THEN [man |-> p, res |-> pResult]
            ELSE Aig_ObjCreate(p, pGhost)

(***************************************************************************)
(* Aig_And (aigOper.c 57-73)                                               *)
(***************************************************************************)
Aig_And(p, p0, p1) ==
    IF p0 = p1 THEN [man |-> p, res |-> p0]
    ELSE IF p0 = Aig_Not(p1) THEN [man |-> p, res |-> (Aig_Not(Aig_ManConst1))]
    ELSE IF Aig_Regular(p0) = Aig_ManConst1
         THEN [man |-> p, res |-> IF p0 = Aig_ManConst1 THEN p1 ELSE (Aig_Not(Aig_ManConst1))]
    ELSE IF Aig_Regular(p1) = Aig_ManConst1
         THEN [man |-> p, res |-> IF p1 = Aig_ManConst1 THEN p0 ELSE (Aig_Not(Aig_ManConst1))]
    ELSE LET pGhost  == Aig_ObjCreateGhost(p0, p1)
             pResult == Aig_TableLookup(p, pGhost)
         IN IF pResult # NULL THEN [man |-> p, res |-> pResult]
            ELSE Aig_ObjCreate(p, pGhost)

(***************************************************************************)
(* The ABC network (abc.h 131-215, abcNtk.c 45-68).  An object is          *)
(*   Type     : "CONST1", "PI", "PO", "NODE", or "NONE" for a deleted slot *)
(*              and "LATCH", "BI", "BO" for a latch, its input and output  *)
(*   pData    : the reset value of a latch (0 none, 1 zero, 2 one, 3 dc)   *)
(*   vFanins  : the Ids of the fanins, fCompl0/fCompl1 their complement    *)
(*   vFanouts : the Ids of the fanouts; its size is the reference count    *)
(* ntk.vObjs holds the objects by Id (entry Id+1), ntk.vPis and ntk.vPos   *)
(* the terminals in creation order, ntk.vTravIds the traversal Id of each  *)
(* object, ntk.nTravIds the current one, ntk.table the Ids of the nodes in *)
(* the structural hash table of the AIG manager.                           *)
(***************************************************************************)
Abc_ObjRegular(p) == p - (p % 2)

Abc_ObjNot(p) == IF p % 2 = 0 THEN p + 1 ELSE p - 1

Abc_ObjNotCond(p, c) == IF c # 0 THEN Abc_ObjNot(p) ELSE p

Abc_ObjIsComplement(p) == p % 2

\* the Id of the object an edge refers to, and the edge to an object
Abc_ObjId(p) == p \div 2

Abc_NtkObj(n, id) == n.vObjs[id + 1]

Abc_ObjAlloc(t) ==
    [Type |-> t, vFanins |-> << >>, fCompl0 |-> 0, fCompl1 |-> 0,
     vFanouts |-> << >>, Level |-> 0, fPhase |-> 0, pData |-> 0]

Abc_ObjIsNode(n, id) == Abc_NtkObj(n, id).Type = "NODE"

Abc_ObjFanoutNum(n, id) == Len(Abc_NtkObj(n, id).vFanouts)

Abc_ObjFaninId0(n, id) == Abc_NtkObj(n, id).vFanins[1]

Abc_ObjFaninId1(n, id) == Abc_NtkObj(n, id).vFanins[2]

Abc_ObjChild0(n, id) ==
    Abc_ObjNotCond((2 * Abc_ObjFaninId0(n, id)), (Abc_NtkObj(n, id).fCompl0))

Abc_ObjChild1(n, id) ==
    Abc_ObjNotCond((2 * Abc_ObjFaninId1(n, id)), (Abc_NtkObj(n, id).fCompl1))

\* the constant-1 node of the AIG manager is the object with Id 0
Abc_AigConst1 == (2 * 0)

\* the Ids that Abc_NtkForEachObj visits, and those of the AND nodes
Abc_NtkObjIds(n) == { id \in 0 .. Len(n.vObjs) - 1 : Abc_NtkObj(n, id).Type # "NONE" }

Abc_NtkNodeIds(n) == { id \in 0 .. Len(n.vObjs) - 1 : Abc_ObjIsNode(n, id) }

\* every edge a caller can hold to a driver: both polarities of the constant,
\* the inputs, the latch outputs and the nodes
Abc_NtkEdges(n) ==
    { l \in 0 .. 2 * Len(n.vObjs) - 1 :
        Abc_NtkObj(n, Abc_ObjId(l)).Type \in {"CONST1", "PI", "BO", "NODE"} }

Abc_NodeIsTravIdCurrent(n, id) == (n.vTravIds[id + 1]) = n.nTravIds

Abc_NtkIncrementTravId(n) == [n EXCEPT !.nTravIds = @ + 1]

(***************************************************************************)
(* Integer vectors: Vec_IntFind, Vec_IntRemove (first occurrence)          *)
(***************************************************************************)
Vec_IntFind(v, e) ==
    IF \E i \in 1 .. Len(v) : v[i] = e
    THEN (CHOOSE i \in 1 .. Len(v) : v[i] = e /\ \A j \in 1 .. i - 1 : v[j] # e) - 1
    ELSE 0 - 1

Vec_IntRemove(v, e) ==
    LET i == Vec_IntFind(v, e) IN
    IF i = 0 - 1 THEN v
    ELSE SubSeq(v, 1, i) \o SubSeq(v, i + 2, Len(v))

(***************************************************************************)
(* Abc_NtkAlloc and Abc_AigAlloc: the empty network with its constant node *)
(***************************************************************************)
Abc_NtkAlloc ==
    [ vObjs |-> << [Abc_ObjAlloc("CONST1") EXCEPT !.fPhase = 1] >>,
      vPis |-> << >>, vPos |-> << >>,
      vCis |-> << >>, vCos |-> << >>, vBoxes |-> << >>,
      vTravIds |-> << 0 >>, nTravIds |-> 1, table |-> {} ]

(***************************************************************************)
(* Abc_NtkCreateObj (abcObj.c 92-135): returns the network; the new object *)
(* has Id Len(n.vObjs)                                                     *)
(***************************************************************************)
Abc_NtkCreateObj(n, t) ==
    [n EXCEPT !.vObjs = Append(@, Abc_ObjAlloc(t)),
              !.vTravIds = IF Len(@) > Len(n.vObjs) THEN @ ELSE Append(@, 0),
              !.vPis = IF t = "PI" THEN Append(@, Len(n.vObjs)) ELSE @,
              !.vPos = IF t = "PO" THEN Append(@, Len(n.vObjs)) ELSE @,
              !.vCis = IF t \in {"PI", "BO"} THEN Append(@, Len(n.vObjs)) ELSE @,
              !.vCos = IF t \in {"PO", "BI"} THEN Append(@, Len(n.vObjs)) ELSE @,
              !.vBoxes = IF t = "LATCH" THEN Append(@, Len(n.vObjs)) ELSE @]

(***************************************************************************)
(* Abc_ObjAddFanin (abcFanio.c 77-89)                                      *)
(***************************************************************************)
Abc_ObjAddFanin(n, obj, pFanin) ==
    LET idR == Abc_ObjId(Abc_ObjRegular(pFanin))
        o1  == [Abc_NtkObj(n, obj) EXCEPT !.vFanins = Append(@, idR)]
        o2  == IF Abc_ObjIsComplement(pFanin) = 1
               THEN (IF Len(o1.vFanins) - 1 = 1 THEN [o1 EXCEPT !.fCompl1 = 1]
                     ELSE [o1 EXCEPT !.fCompl0 = 1])
               ELSE o1
        n1  == [n EXCEPT !.vObjs[obj + 1] = o2]
    IN [n1 EXCEPT !.vObjs[idR + 1].vFanouts = Append(@, obj)]

(***************************************************************************)
(* Abc_ObjDeleteFanin (abcFanio.c 102-118)                                 *)
(***************************************************************************)
Abc_ObjDeleteFanin(n, obj, fanin) ==
    IF Vec_IntFind(Abc_NtkObj(n, obj).vFanins, fanin) = 0 - 1 THEN n
    ELSE LET n1 == [n EXCEPT !.vObjs[obj + 1].vFanins = Vec_IntRemove(@, fanin)]
         IN [n1 EXCEPT !.vObjs[fanin + 1].vFanouts = Vec_IntRemove(@, obj)]

\* the fanin is replaced and its complement bit is left as it was
Abc_ObjPatchFaninNoXor(n, obj, pFaninOld, pFaninNew) ==
    LET idNewR == Abc_ObjId(Abc_ObjRegular(pFaninNew))
        iFanin == Vec_IntFind(Abc_NtkObj(n, obj).vFanins, pFaninOld)
    IN IF iFanin = 0 - 1 THEN n
       ELSE LET o1 == [Abc_NtkObj(n, obj) EXCEPT !.vFanins[iFanin + 1] = idNewR]
                o2 == o1
                n1 == [n EXCEPT !.vObjs[obj + 1] = o2]
                n2 == [n1 EXCEPT !.vObjs[pFaninOld + 1].vFanouts = Vec_IntRemove(@, obj)]
            IN [n2 EXCEPT !.vObjs[idNewR + 1].vFanouts = Append(@, obj)]

(***************************************************************************)
(* Abc_ObjPatchFanin (abcFanio.c 162-200)                                  *)
(***************************************************************************)
Abc_ObjPatchFanin(n, obj, pFaninOld, pFaninNew) ==
    LET idNewR == Abc_ObjId(Abc_ObjRegular(pFaninNew))
        iFanin == Vec_IntFind(Abc_NtkObj(n, obj).vFanins, pFaninOld)
    IN IF iFanin = 0 - 1 THEN n
       ELSE LET o1 == [Abc_NtkObj(n, obj) EXCEPT !.vFanins[iFanin + 1] = idNewR]
                o2 == IF Abc_ObjIsComplement(pFaninNew) = 1
                      THEN (IF iFanin = 1 THEN [o1 EXCEPT !.fCompl1 = 1 - @]
                            ELSE [o1 EXCEPT !.fCompl0 = 1 - @])
                      ELSE o1
                n1 == [n EXCEPT !.vObjs[obj + 1] = o2]
                n2 == [n1 EXCEPT !.vObjs[pFaninOld + 1].vFanouts = Vec_IntRemove(@, obj)]
            IN [n2 EXCEPT !.vObjs[idNewR + 1].vFanouts = Append(@, obj)]

(***************************************************************************)
(* Abc_NtkDeleteObj (abcObj.c 148-206): removes the fanin relations with   *)
(* all fanouts and all fanins, then leaves a hole in vObjs                 *)
(***************************************************************************)
Abc_NtkDeleteObj(n, obj) ==
    LET RECURSIVE DeleteFromFanouts(_, _)
        DeleteFromFanouts(m, vNodes) ==
            IF vNodes = << >> THEN m
            ELSE DeleteFromFanouts(Abc_ObjDeleteFanin(m, Head(vNodes), obj), Tail(vNodes))
        RECURSIVE DeleteFanins(_, _)
        DeleteFanins(m, vNodes) ==
            IF vNodes = << >> THEN m
            ELSE DeleteFanins(Abc_ObjDeleteFanin(m, obj, Head(vNodes)), Tail(vNodes))
        n1 == DeleteFromFanouts(n, Abc_NtkObj(n, obj).vFanouts)
        n2 == DeleteFanins(n1, Abc_NtkObj(n1, obj).vFanins)
    IN [n2 EXCEPT !.vObjs[obj + 1] = (Abc_ObjAlloc("NONE")),
                  !.vPis = Vec_IntRemove(@, obj),
                  !.vPos = Vec_IntRemove(@, obj),
                  !.vCis = Vec_IntRemove(@, obj),
                  !.vCos = Vec_IntRemove(@, obj),
                  !.vBoxes = Vec_IntRemove(@, obj)]

(***************************************************************************)
(* The structural hash table of the network's AIG manager.  The key of a   *)
(* node is (smaller fanin Id, its complement, larger fanin Id, its         *)
(* complement); the table holds the Ids of its nodes.                      *)
(***************************************************************************)
Abc_AigTableLookup(n, p0, p1) ==
    LET \* the key of a pair of edges: the edge with the smaller Id first
        Ghost(a, b) == IF Abc_ObjId(a) < Abc_ObjId(b) THEN << a, b >> ELSE << b, a >>
        hits == { id \in n.table :
                    /\ Abc_ObjIsNode(n, id)
                    /\ Len(Abc_NtkObj(n, id).vFanins) = 2
                    /\ Ghost(Abc_ObjChild0(n, id), Abc_ObjChild1(n, id)) = Ghost(p0, p1) }
    IN IF hits = {} THEN NULL
       ELSE 2 * (CHOOSE id \in hits : \A o \in hits : id <= o)


(***************************************************************************)
(* Abc_AigAndLookup: And without allocation; NULL when the pair is not in  *)
(* the table                                                               *)
(***************************************************************************)
Abc_AigAndLookup(n, p0, p1) ==
    IF p0 = p1 THEN p0
    ELSE IF p0 = Abc_ObjNot(p1) THEN Abc_ObjNot(Abc_AigConst1)
    ELSE IF Abc_ObjRegular(p0) = Abc_AigConst1
         THEN (IF p0 = Abc_AigConst1 THEN p1 ELSE Abc_ObjNot(Abc_AigConst1))
    ELSE IF Abc_ObjRegular(p1) = Abc_AigConst1
         THEN (IF p1 = Abc_AigConst1 THEN p0 ELSE Abc_ObjNot(Abc_AigConst1))
    ELSE Abc_AigTableLookup(n, p0, p1)

(***************************************************************************)
(* Abc_AigAnd: the And of the AIG manager on the network; a new node is    *)
(* created by Abc_NtkCreateObj and connected by Abc_ObjAddFanin, smaller   *)
(* Id first.  Returns the network and the resulting edge.                  *)
(***************************************************************************)
Abc_AigAnd(n, p0, p1) ==
    LET pAnd == Abc_AigAndLookup(n, p0, p1)
        g  == IF Abc_ObjId(p0) < Abc_ObjId(p1) THEN << p0, p1 >> ELSE << p1, p0 >>
        id == Len(n.vObjs)
        n1 == Abc_NtkCreateObj(n, "NODE")
        n2 == Abc_ObjAddFanin(Abc_ObjAddFanin(n1, id, g[1]), id, g[2])
        PhaseReal(e) == (Abc_NtkObj(n, Abc_ObjId(e)).fPhase + Abc_ObjIsComplement(e)) % 2
        Level(e) == Abc_NtkObj(n, Abc_ObjId(e)).Level
        n3 == [n2 EXCEPT !.vObjs[id + 1].fPhase = PhaseReal(g[1]) * PhaseReal(g[2]),
                         !.vObjs[id + 1].Level =
                              1 + (IF Level(g[1]) > Level(g[2]) THEN Level(g[1]) ELSE Level(g[2])),
                         !.table = @ \cup {id}]
    IN IF pAnd # NULL THEN [ntk |-> n, res |-> pAnd]
       ELSE [ntk |-> n3, res |-> 2 * id]

(***************************************************************************)
(* Abc_AigDeleteNode: deletes a node without fanouts; a fanin that is a    *)
(* node and is left without fanouts is deleted in turn                     *)
(***************************************************************************)
RECURSIVE Abc_AigDeleteNode(_, _)
RECURSIVE Abc_AigDeleteNodes(_, _)
Abc_AigDeleteNodes(n, vNodes) ==
    IF vNodes = << >> THEN n
    ELSE LET f == Head(vNodes) IN
         IF Abc_ObjIsNode(n, f) /\ Abc_ObjFanoutNum(n, f) = 0
         THEN Abc_AigDeleteNodes(Abc_AigDeleteNode(n, f), Tail(vNodes))
         ELSE Abc_AigDeleteNodes(n, Tail(vNodes))

Abc_AigDeleteNode(n, obj) ==
    LET vFanins == Abc_NtkObj(n, obj).vFanins
        n1 == Abc_NtkDeleteObj(([n EXCEPT !.table = @ \ {obj}]), obj)
    IN Abc_AigDeleteNodes(n1, vFanins)

\* the Ids of a set in increasing order
RECURSIVE SetToSeq(_)
SetToSeq(S) ==
    IF S = {} THEN << >>
    ELSE LET m == CHOOSE x \in S : \A y \in S : x <= y
         IN << m >> \o SetToSeq(S \ {m})

(***************************************************************************)
(* Abc_AigCleanup: deletes the nodes without fanouts, recursively          *)
(***************************************************************************)
Abc_AigCleanup(n) ==
    Abc_AigDeleteNodes(n, SetToSeq({ id \in Abc_NtkNodeIds(n) : Abc_ObjFanoutNum(n, id) = 0 }))

(***************************************************************************)
(* Abc_AigReplace: every fanout of the old node is rewired to the new edge *)
(* by Abc_ObjPatchFanin, bracketed by the removal from and the insertion   *)
(* into the table; then the old node and its MFFC are deleted              *)
(***************************************************************************)
Abc_AigReplace(n, pOld, pNew) ==
    LET RECURSIVE ReplaceFanouts(_, _)
        ReplaceFanouts(m, vFanouts) ==
            IF vFanouts = << >> THEN m
            ELSE LET pFanout == Head(vFanouts)
                     n1 == Abc_ObjPatchFanin([m EXCEPT !.table = @ \ {pFanout}],
                                             pFanout, pOld, pNew)
                     n2 == IF Abc_ObjIsNode(n1, pFanout)
                            THEN [n1 EXCEPT !.table = @ \cup {pFanout}] ELSE n1
                 IN ReplaceFanouts(n2, Tail(vFanouts))
    IN Abc_AigDeleteNode(ReplaceFanouts(n, Abc_NtkObj(n, pOld).vFanouts), pOld)

(***************************************************************************)
(* Abc_NodeRefDeref (abcRefs.c 69-100) on the fanout counts sz (by Id+1):  *)
(* st.trav are the traversal Ids, st.cnt the running count; st.ok is       *)
(* cleared when an assertion fails or a fanin is read that does not exist  *)
(***************************************************************************)
RECURSIVE Abc_NodeRefDerefNoRecount(_, _, _, _, _)
Abc_NodeRefDerefNoRecount(n, st, pNode, fReference, fLabel) ==
    LET st1 == IF fLabel THEN [st EXCEPT !.trav[pNode + 1] = n.nTravIds] ELSE st IN
    IF (Abc_NtkObj(n, pNode).Type \in {"PI", "BO"}) THEN st1
    ELSE IF (Len(Abc_NtkObj(n, pNode).vFanins)) < 2 THEN [st1 EXCEPT !.ok = FALSE]
    ELSE
      LET pNode0 == Abc_ObjFaninId0(n, pNode)
          pNode1 == Abc_ObjFaninId1(n, pNode)
          st2    == [st1 EXCEPT !.cnt = @ + 1]
      IN IF fReference
         THEN LET a == [st2 EXCEPT !.sz[pNode0 + 1] = @ + 1]
                  b == IF st2.sz[pNode0 + 1] = 0
                       THEN Abc_NodeRefDerefNoRecount(n, a, pNode0, fReference, fLabel) ELSE a
              IN IF b.sz[pNode1 + 1] = 0
                 THEN Abc_NodeRefDerefNoRecount(n, b, pNode1, fReference, fLabel) ELSE b
         ELSE IF st2.sz[pNode0 + 1] <= 0 \/ st2.sz[pNode1 + 1] <= 0
              THEN [st2 EXCEPT !.ok = FALSE]
              ELSE LET a == [st2 EXCEPT !.sz[pNode0 + 1] = @ - 1]
                       b == IF a.sz[pNode0 + 1] = 0
                            THEN Abc_NodeRefDerefNoRecount(n, a, pNode0, fReference, fLabel) ELSE a
                       c == [b EXCEPT !.sz[pNode1 + 1] = @ - 1]
                   IN IF c.sz[pNode1 + 1] = 0
                      THEN Abc_NodeRefDerefNoRecount(n, c, pNode1, fReference, fLabel) ELSE c

RECURSIVE Abc_NodeRefDeref(_, _, _, _, _)
Abc_NodeRefDeref(n, st, pNode, fReference, fLabel) ==
    LET st1 == IF fLabel THEN [st EXCEPT !.trav[pNode + 1] = n.nTravIds] ELSE st IN
    IF (Abc_NtkObj(n, pNode).Type \in {"PI", "BO"}) THEN st1
    ELSE IF (Len(Abc_NtkObj(n, pNode).vFanins)) < 2 THEN [st1 EXCEPT !.ok = FALSE]
    ELSE
      LET pNode0 == Abc_ObjFaninId0(n, pNode)
          pNode1 == Abc_ObjFaninId1(n, pNode)
          st2    == [st1 EXCEPT !.cnt = @ + 1]
      IN IF fReference
         THEN LET a == [st2 EXCEPT !.sz[pNode0 + 1] = @ + 1]
                  b == IF st2.sz[pNode0 + 1] = 0
                       THEN Abc_NodeRefDeref(n, a, pNode0, fReference, fLabel) ELSE a
                  c == [b EXCEPT !.sz[pNode1 + 1] = @ + 1]
              IN IF b.sz[pNode1 + 1] = 0
                 THEN Abc_NodeRefDeref(n, c, pNode1, fReference, fLabel) ELSE c
         ELSE IF st2.sz[pNode0 + 1] <= 0 \/ st2.sz[pNode1 + 1] <= 0
              THEN [st2 EXCEPT !.ok = FALSE]
              ELSE LET a == [st2 EXCEPT !.sz[pNode0 + 1] = @ - 1]
                       b == IF a.sz[pNode0 + 1] = 0
                            THEN Abc_NodeRefDeref(n, a, pNode0, fReference, fLabel) ELSE a
                       c == [b EXCEPT !.sz[pNode1 + 1] = @ - 1]
                   IN IF c.sz[pNode1 + 1] = 0
                      THEN Abc_NodeRefDeref(n, c, pNode1, fReference, fLabel) ELSE c


(***************************************************************************)
(* Abc_NodeMffcLabelAig (abcRefs.c 44-56) started from the fanout counts   *)
(* sz: the dereference pass labels, the reference pass restores.  Returns  *)
(* the network, both cone sizes and the returned value.                    *)
(***************************************************************************)
Abc_NodeMffcLabelAig(n, pNode) ==
    LET sz == ([i \in 1 .. Len(n.vObjs) |-> Len(n.vObjs[i].vFanouts)])
        d == Abc_NodeRefDeref(n, [sz |-> sz, trav |-> n.vTravIds, cnt |-> 0, ok |-> TRUE],
                              pNode, FALSE, TRUE)
        r == Abc_NodeRefDeref(n, [sz |-> d.sz, trav |-> d.trav, cnt |-> 0, ok |-> d.ok],
                              pNode, TRUE, FALSE)
        \* a fanout array whose size field was set to k: the entries beyond the
        \* old size are whatever the array held
        Resize(v, k) == IF k <= Len(v) THEN SubSeq(v, 1, k)
                        ELSE v \o [j \in 1 .. k - Len(v) |-> NULL]
    IN IF (Len(Abc_NtkObj(n, pNode).vFanins)) = 0
       THEN [ntk |-> n, nConeSize1 |-> 0, nConeSize2 |-> 0, ret |-> 0, ok |-> TRUE]
       ELSE [ntk |-> [n EXCEPT !.vTravIds = r.trav,
                               !.vObjs = [i \in 1 .. Len(n.vObjs) |->
                                    [n.vObjs[i] EXCEPT !.vFanouts = Resize(@, r.sz[i])]] \o << >>],
             nConeSize1 |-> d.cnt, nConeSize2 |-> r.cnt, ret |-> d.cnt, ok |-> r.ok]

(***************************************************************************)
(* Abc_AigDfs with Abc_AigDfs_rec (abcDfs.c 108-165): st.trav are the     *)
(* traversal Ids under the incremented counter cur, st.vNodes the nodes    *)
(* collected so far                                                        *)
(***************************************************************************)
Abc_AigDfs(n, fCollectAll) ==
    LET n1  == Abc_NtkIncrementTravId(n)
        cur == n1.nTravIds
        RECURSIVE Dfs_rec(_, _)
        RECURSIVE Dfs_recFanins(_, _)
        Dfs_recFanins(st, vFanins) ==
            IF vFanins = << >> THEN st
            ELSE Dfs_recFanins(Dfs_rec(st, Head(vFanins)), Tail(vFanins))
        Dfs_rec(st, pNode) ==
            IF st.trav[pNode + 1] = cur THEN st
            ELSE LET st1 == [st EXCEPT !.trav[pNode + 1] = cur] IN
                 IF Abc_NtkObj(n1, pNode).Type \in {"PI", "BO", "CONST1"} THEN st1
                 ELSE LET st2 == Dfs_recFanins(st1, Abc_NtkObj(n1, pNode).vFanins)
                      IN [st2 EXCEPT !.vNodes = Append(@, pNode)]
        \* the drivers of the COs, then (fCollectAll) the nodes not yet visited
        RECURSIVE DfsCos(_, _)
        DfsCos(st, vCos) ==
            IF vCos = << >> THEN st
            ELSE LET st1 == Dfs_rec(st, Abc_ObjFaninId0(n1, Head(vCos)))
                 IN DfsCos([st1 EXCEPT !.trav[Head(vCos) + 1] = cur], Tail(vCos))
        RECURSIVE DfsAll(_, _)
        DfsAll(st, vNodes) ==
            IF vNodes = << >> THEN st
            ELSE DfsAll(IF st.trav[Head(vNodes) + 1] # cur
                        THEN Dfs_rec(st, Head(vNodes)) ELSE st, Tail(vNodes))
        st1 == DfsCos([trav |-> n1.vTravIds, vNodes |-> << >>], n1.vCos)
        st2 == IF fCollectAll THEN DfsAll(st1, SetToSeq(Abc_NtkNodeIds(n1))) ELSE st1
    IN [ntk |-> [n1 EXCEPT !.vTravIds = st2.trav], vNodes |-> st2.vNodes]

(***************************************************************************)
(* Abc_NtkReassignIds (abcUtil.c 246-315): constant, PIs, POs, then the    *)
(* nodes in DFS order; the fanin and fanout arrays get the new Ids, the    *)
(* complement bits and the order of the fanins stay, the table is rehashed *)
(***************************************************************************)
Abc_NtkReassignIds(n) ==
    LET RECURSIVE Boxes(_, _)
        Boxes(n1, i) ==
            IF i > Len(n1.vBoxes) THEN << >>
            ELSE << n1.vBoxes[i] >> \o Abc_NtkObj(n1, n1.vBoxes[i]).vFanins
                    \o Abc_NtkObj(n1, n1.vBoxes[i]).vFanouts \o Boxes(n1, i + 1)
        \* Abc_AigRehash: the table is rebuilt from the nodes under their new Ids
        Rehash(n2) == [n2 EXCEPT !.table = Abc_NtkNodeIds(n2)]
        \* the objects in the order vObjsNew, the network n1 after the DFS
        Assign(n1, vObjsNew) ==
            LET NewId(old) == (CHOOSE i \in 1 .. Len(vObjsNew) : vObjsNew[i] = old) - 1
                Renum(v) == [k \in 1 .. Len(v) |-> NewId(v[k])] \o << >>
                objs     == [i \in 1 .. Len(vObjsNew) |->
                                [Abc_NtkObj(n1, vObjsNew[i]) EXCEPT
                                    !.vFanins = Renum(@), !.vFanouts = Renum(@)]] \o << >>
            IN Rehash([n1 EXCEPT !.vObjs = objs, !.vPis = Renum(@), !.vPos = Renum(@),
                                 !.vCis = Renum(@), !.vCos = Renum(@),
                                 !.vBoxes = Renum(@)])
        Order(dfs) ==
            Assign(dfs.ntk, << 0 >> \o dfs.ntk.vPis \o dfs.ntk.vPos \o Boxes(dfs.ntk, 1)
                                \o dfs.vNodes)
    IN Order(Abc_AigDfs(n, TRUE))

(***************************************************************************)
(* Operations on one AIG manager                                           *)
(***************************************************************************)
InitAig == aig = Aig_ManStart /\ ntk = Abc_NtkAlloc /\ man = [stage |-> "none"]

AigCreateCi ==
    /\ Len(aig.vObjs) < MaxAigObjs
    /\ Cardinality({ id \in 0 .. Len(aig.vObjs) - 1 : aig.vObjs[id + 1].Type = "CI" }) < MaxAigCis
    \* Aig_ObjCreateCi: a new input terminal
    /\ aig' = [aig EXCEPT !.vObjs = Append(@, [Type |-> "CI", pFanin0 |-> NULL,
                                               pFanin1 |-> NULL, nRefs |-> 0, fPhase |-> 0])]
    /\ UNCHANGED << ntk, man >>

AigAnd ==
    \E p0 \in Aig_ManEdges(aig), p1 \in Aig_ManEdges(aig) :
        /\ Len(Aig_And(aig, p0, p1).man.vObjs) <= MaxAigObjs
        /\ aig' = Aig_And(aig, p0, p1).man
        /\ UNCHANGED << ntk, man >>

NextAig == AigCreateCi \/ AigAnd

SpecAig == InitAig /\ [][NextAig]_vars

(***************************************************************************)
(* Operations on one network, in any order: the calls the readers and the  *)
(* passes make on the network and its AIG manager                          *)
(***************************************************************************)
\* the transitive fanin of a set of objects (the set included), up to the
\* CIs: the latch behind a latch output does not belong to it
RECURSIVE Abc_NtkTfi(_, _)
Abc_NtkTfi(n, S) ==
    LET T == S \cup { f \in 0 .. Len(n.vObjs) - 1 :
                        \E o \in S : \E k \in 1 .. (Len(Abc_NtkObj(n, o).vFanins)) :
                            /\ Abc_NtkObj(n, o).Type # "BO"
                            /\ Abc_NtkObj(n, o).vFanins[k] = f }
    IN IF T = S THEN S ELSE Abc_NtkTfi(n, T)

\* the value of an object and of an edge under an assignment of the CIs
RECURSIVE Abc_ObjValue(_, _, _)
Abc_ObjValue(n, id, asg) ==
    IF (Abc_NtkObj(n, id).Type = "CONST1") THEN TRUE
    ELSE IF (Abc_NtkObj(n, id).Type \in {"PI", "BO"}) THEN asg[id]
    ELSE IF (Abc_NtkObj(n, id).Type \in {"PO", "BI"})
         THEN Abc_ObjValue(n, Abc_ObjFaninId0(n, id), asg) # ((Abc_NtkObj(n, id).fCompl0) = 1)
    ELSE /\ Abc_ObjValue(n, Abc_ObjFaninId0(n, id), asg) # ((Abc_NtkObj(n, id).fCompl0) = 1)
         /\ Abc_ObjValue(n, Abc_ObjFaninId1(n, id), asg) # ((Abc_NtkObj(n, id).fCompl1) = 1)

\* the function of an edge: the assignments of the PIs under which it is 1
Abc_EdgeTruth(n, p) ==
    { asg \in [ { n.vPis[i] : i \in 1 .. Len(n.vPis) } -> BOOLEAN ] :
        Abc_ObjValue(n, Abc_ObjId(p), asg) # (Abc_ObjIsComplement(p) = 1) }

InitNtk == aig = Aig_ManStart /\ ntk = Abc_NtkAlloc /\ man = [stage |-> "none"]

NtkCreatePi ==
    /\ Len(ntk.vObjs) < MaxObjs
    /\ Len(ntk.vPis) < MaxPis
    /\ ntk' = Abc_NtkCreateObj(ntk, "PI")
    /\ UNCHANGED << aig, man >>

NtkCreatePo ==
    \E pDriver \in Abc_NtkEdges(ntk) :
        /\ Len(ntk.vObjs) < MaxObjs
        /\ Len(ntk.vPos) < MaxPos
        /\ ntk' = Abc_ObjAddFanin(Abc_NtkCreateObj(ntk, "PO"), Len(ntk.vObjs), pDriver)
        /\ UNCHANGED << aig, man >>

NtkAnd ==
    \E p0 \in Abc_NtkEdges(ntk), p1 \in Abc_NtkEdges(ntk) :
        LET r == Abc_AigAnd(ntk, p0, p1) IN
        /\ Len(r.ntk.vObjs) <= MaxObjs
        /\ ntk' = r.ntk
        /\ UNCHANGED << aig, man >>

NtkReplace ==
    \E pOld \in Abc_NtkNodeIds(ntk), pNew \in Abc_NtkEdges(ntk) :
        /\ Abc_ObjId(pNew) # pOld
        /\ pOld \notin Abc_NtkTfi(ntk, {Abc_ObjId(pNew)})
        /\ Abc_EdgeTruth(ntk, pNew) = Abc_EdgeTruth(ntk, (2 * pOld))
        /\ ntk' = Abc_AigReplace(ntk, pOld, pNew)
        /\ UNCHANGED << aig, man >>

NtkCleanup ==
    /\ \E id \in Abc_NtkNodeIds(ntk) : Abc_ObjFanoutNum(ntk, id) = 0
    /\ ntk' = Abc_AigCleanup(ntk)
    /\ UNCHANGED << aig, man >>

NtkMffcLabel ==
    \E pNode \in Abc_NtkNodeIds(ntk) :
        LET m == Abc_NodeMffcLabelAig(Abc_NtkIncrementTravId(ntk), pNode) IN
        /\ ntk.nTravIds < MaxTravId
        /\ m.ok
        /\ m.nConeSize1 = m.nConeSize2 /\ m.nConeSize1 > 0
        /\ ntk' = m.ntk
        /\ UNCHANGED << aig, man >>

NextNtk ==
    \/ NtkCreatePi
    \/ NtkCreatePo
    \/ NtkAnd
    \/ NtkReplace
    \/ NtkCleanup
    \/ NtkMffcLabel

SpecNtk == InitNtk /\ [][NextNtk]_vars

(***************************************************************************)
(* C4: after any sequence of And calls on one manager no two distinct live *)
(* AND nodes have the same (Regular(fanin0).id, IsCompl(fanin0),           *)
(* Regular(fanin1).id, IsCompl(fanin1)); And(a,b) and And(b,a) return the  *)
(* same node and exactly one AND with these two fanins exists.             *)
(***************************************************************************)
C4_HashUnique ==
    LET Obj(p, id) == p.vObjs[id + 1]
        Key(id) == << Obj(aig, id).pFanin0 \div 2, Obj(aig, id).pFanin0 % 2,
                      Obj(aig, id).pFanin1 \div 2, Obj(aig, id).pFanin1 % 2 >>
        AndsOver(p, a, b) ==
            { id \in Aig_ManAnds(p) : {Obj(p, id).pFanin0, Obj(p, id).pFanin1} = {a, b} }
    IN /\ \A m \in Aig_ManAnds(aig), n \in Aig_ManAnds(aig) : m # n => Key(m) # Key(n)
       /\ \A a \in Aig_ManEdges(aig), b \in Aig_ManEdges(aig) :
              LET x == Aig_And(aig, a, b)
                  y == Aig_And(x.man, b, a)
              IN /\ x.res = y.res
                 /\ y.man = x.man
                 /\ (Aig_Regular(a) # Aig_Regular(b) /\ Aig_Regular(a) # Aig_ManConst1
                       /\ Aig_Regular(b) # Aig_ManConst1)
                    => Cardinality(AndsOver(y.man, a, b)) = 1

\* two AND nodes exist, one of them with a complemented fanin and an AND fanin
C4_Witness ==
    \E m \in Aig_ManAnds(aig), n \in Aig_ManAnds(aig) :
        /\ m # n
        /\ (aig.vObjs[n + 1]).pFanin1 = (2 * m) + 1
        /\ (aig.vObjs[m + 1]).nRefs >= 1

(***************************************************************************)
(* The invariants of the AIG on the network                                *)
(***************************************************************************)
\* the live objects that have the object as one of their fanins
NtkFanoutObjs(n, id) ==
    { m \in Abc_NtkObjIds(n) :
        \E k \in 1 .. (Len(Abc_NtkObj(n, m).vFanins)) : Abc_NtkObj(n, m).vFanins[k] = id }

\* the MFFC of a root: the root and every node all of whose fanouts are in it
RECURSIVE NtkMffc(_, _)
NtkMffc(n, S) ==
    LET T == S \cup { x \in Abc_NtkNodeIds(n) :
                        /\ \E s \in S : s \in NtkFanoutObjs(n, x)
                        /\ NtkFanoutObjs(n, x) \subseteq S }
    IN IF T = S THEN S ELSE NtkMffc(n, T)

(***************************************************************************)
(* C5: between operations every live AND node has                          *)
(* Regular(fanin0).id < Regular(fanin1).id.                                *)
(***************************************************************************)
C5_CanonicalOrder ==
    \A id \in Abc_NtkNodeIds(ntk) : Abc_ObjFaninId0(ntk, id) < Abc_ObjFaninId1(ntk, id)

(***************************************************************************)
(* C6: after any number of completed operations the reference count of     *)
(* every live non-terminal node equals the number of live objects that     *)
(* have it as the regular target of fanin 0 or of fanin 1.                 *)
(***************************************************************************)
C6_RefsCorrect ==
    \A id \in Abc_NtkObjIds(ntk) :
        Abc_NtkObj(ntk, id).Type \in {"NODE", "CONST1"}
            => Abc_ObjFanoutNum(ntk, id) = Cardinality(NtkFanoutObjs(ntk, id))

(***************************************************************************)
(* C7: after Replace no live AND node has constant-1 as a fanin, two       *)
(* identical fanins or two complementary fanins.                           *)
(***************************************************************************)
C7_TrivialFree ==
    \A id \in Abc_NtkNodeIds(ntk) :
        /\ Abc_ObjFaninId0(ntk, id) # 0 /\ Abc_ObjFaninId1(ntk, id) # 0
        /\ Abc_ObjFaninId0(ntk, id) # Abc_ObjFaninId1(ntk, id)

(***************************************************************************)
(* C9: for any AND node r the dereference pass followed by the reference   *)
(* pass returns the same count both times and leaves every reference       *)
(* count unchanged.                                                        *)
(***************************************************************************)
C9_MffcRoundTrip ==
    \A r \in Abc_NtkNodeIds(ntk) :
        LET m == Abc_NodeMffcLabelAig(Abc_NtkIncrementTravId(ntk), r) IN
        m.ok => /\ m.nConeSize1 = m.nConeSize2
                /\ [i \in 1 .. Len(m.ntk.vObjs) |-> Len(m.ntk.vObjs[i].vFanouts)]
                     = [i \in 1 .. Len(ntk.vObjs) |-> Len(ntk.vObjs[i].vFanouts)]
                /\ m.ntk.vObjs = ntk.vObjs

\* a labelling has run on a root whose cone has at least two nodes
C9_Witness ==
    /\ ntk.nTravIds > 1
    /\ \E r \in Abc_NtkNodeIds(ntk), x \in Abc_NtkNodeIds(ntk) :
          /\ r # x
          /\ Abc_NodeIsTravIdCurrent(ntk, r) /\ Abc_NodeIsTravIdCurrent(ntk, x)
          /\ x \in NtkMffc(ntk, {r})

(***************************************************************************)
(* C10: after MFFC labelling of a root r a node carries the current        *)
(* traversal Id if and only if it belongs to the MFFC of r.                *)
(***************************************************************************)
C10_LabelIffMffc ==
    \A r \in Abc_NtkNodeIds(ntk) :
        LET m == Abc_NodeMffcLabelAig(Abc_NtkIncrementTravId(ntk), r) IN
        m.ok => \A id \in Abc_NtkObjIds(ntk) :
                    Abc_NodeIsTravIdCurrent(m.ntk, id) <=> id \in NtkMffc(ntk, {r})

(***************************************************************************)
(* Decomposition graphs (Dec_Graph_t).  The first nLeaves entries of       *)
(* pNodes are the leaves, whose pFunc is the object they stand for; the    *)
(* other entries are AND gates over earlier entries; an edge is the pair   *)
(* of a position in pNodes (from 0) and a complement bit.                  *)
(***************************************************************************)
Dec_EdgeCreate(Node, fCompl) == [Node |-> Node, fCompl |-> fCompl]

Dec_NodeZero == [eEdge0 |-> Dec_EdgeCreate(0, 0), eEdge1 |-> Dec_EdgeCreate(0, 0),
                 pFunc |-> NULL, fNodeOr |-> 0]

Dec_GraphCreate(nLeaves) ==
    [fConst |-> 0, nLeaves |-> nLeaves,
     pNodes |-> [i \in 1 .. nLeaves |-> Dec_NodeZero] \o << >>,
     eRoot |-> Dec_EdgeCreate(0, 0)]

Dec_GraphCreateConst0 ==
    [fConst |-> 1, nLeaves |-> 0, pNodes |-> << >>, eRoot |-> Dec_EdgeCreate(0, 1)]

Dec_GraphCreateConst1 ==
    [fConst |-> 1, nLeaves |-> 0, pNodes |-> << >>, eRoot |-> Dec_EdgeCreate(0, 0)]

\* the NULL returned when no graph is found
Dec_GraphNull ==
    [fConst |-> NULL, nLeaves |-> 0, pNodes |-> << >>, eRoot |-> Dec_EdgeCreate(0, 0)]

Dec_GraphSetLeaf(pGraph, i, pFunc) ==
    [pGraph EXCEPT !.pNodes[i + 1].pFunc = pFunc]

Dec_GraphComplement(pGraph) == [pGraph EXCEPT !.eRoot.fCompl = 1 - @]

\* the graph with one more AND gate, and the edge that points to the gate
Dec_GraphAddNodeAnd(pGraph, eEdge0, eEdge1) ==
    [g |-> [pGraph EXCEPT !.pNodes = Append(@,
                [Dec_NodeZero EXCEPT !.eEdge0 = eEdge0, !.eEdge1 = eEdge1])],
     e |-> Dec_EdgeCreate(Len(pGraph.pNodes), 0)]

\* an OR gate is the AND gate of the complemented edges, pointed to by a
\* complemented edge
Dec_GraphAddNodeOr(pGraph, eEdge0, eEdge1) ==
    [g |-> [pGraph EXCEPT !.pNodes = Append(@,
                [Dec_NodeZero EXCEPT !.eEdge0 = Dec_EdgeCreate(eEdge0.Node, 1 - eEdge0.fCompl),
                                     !.eEdge1 = Dec_EdgeCreate(eEdge1.Node, 1 - eEdge1.fCompl),
                                     !.fNodeOr = 1])],
     e |-> Dec_EdgeCreate(Len(pGraph.pNodes), 1)]

(***************************************************************************)
(* Simulation information of the resubstitution manager (abcResub.c): one  *)
(* bit for each of the nBits patterns of the nLeavesMax cut variables,     *)
(* kept as the set of the patterns whose bit is 1.  With nBits <= 32 the   *)
(* info is one word whose bits from nBits on are 0 in every leaf, so they  *)
(* repeat pattern 0 in every object and the set leaves them out.           *)
(***************************************************************************)
\* the limit on the number of cut leaves (resub -K)
nLeavesMax == 3
\* the largest level of a cut leaf
MaxLeafLevel == 1
\* the largest number of divisors collected above the leaves
MaxCollected == 1
\* the largest size of the MFFC of the root
MaxMffc == 4

ABC_RS_DIV1_MAX == 150
ABC_RS_DIV2_MAX == 500

Abc_ManResubPatterns == 0 .. (2 ^ nLeavesMax) - 1

Abc_InfoNot(puData) == Abc_ManResubPatterns \ puData

Abc_InfoNotCond(puData, c) == IF c = 1 THEN Abc_InfoNot(puData) ELSE puData

\* the info of entry i of vDivs before it is normalized.  The nodes of the
\* MFFC are simulated like the divisors; of them vDivs keeps the root only,
\* which carries the function that the MFFC computes over the leaves.
RECURSIVE Abc_ManResubSimulateObj(_, _, _)
Abc_ManResubSimulateObj(vDivs, nLeaves, i) ==
    LET pObj == vDivs[i] IN
    IF i <= nLeaves THEN ({ b \in Abc_ManResubPatterns : (b \div (2 ^ (i - 1))) % 2 = 1 })
    ELSE IF pObj.Fanin0 = NULL THEN pObj.puData
    ELSE Abc_InfoNotCond(Abc_ManResubSimulateObj(vDivs, nLeaves, pObj.Fanin0), pObj.fCompl0)
         \cap Abc_InfoNotCond(Abc_ManResubSimulateObj(vDivs, nLeaves, pObj.Fanin1), pObj.fCompl1)

\* pData and fPhase of every entry of vDivs: the info is complemented when
\* its bit of pattern 0 is 1
Abc_ManResubSimulate(vDivs, nLeaves) ==
    [i \in 1 .. Len(vDivs) |->
        LET puData == Abc_ManResubSimulateObj(vDivs, nLeaves, i)
            fPhase == IF 0 \in puData THEN 1 ELSE 0
        IN [pData |-> Abc_InfoNotCond(puData, fPhase), fPhase |-> fPhase]] \o << >>

(***************************************************************************)
(* The divisor search.  The manager p holds vDivs (the nLeaves leaves, the *)
(* other divisors up to nDivs, then the root), the simulation info sim of  *)
(* every entry, and the lists of unate and binate divisors.  A pointer to  *)
(* entry i of vDivs is the literal 2*i + complement bit.                   *)
(***************************************************************************)

Abc_ManResubData(p, pObj) == p.sim[Abc_ObjId(pObj)].pData

Abc_ManResubDataR(p) == p.sim[(Len(p.vDivs))].pData

\* the first of the positions of a loop that pass its test, 0 when none does
Vec_First(S) ==
    IF S = {} THEN 0 ELSE CHOOSE i \in S : \A j \in S : i <= j

\* the pairs i < k and the triples i < k < j of 1 .. n in the order of the
\* nested loops
RECURSIVE Vec_Pairs(_, _, _)
Vec_Pairs(i, k, n) ==
    IF i >= n THEN << >>
    ELSE IF k > n THEN Vec_Pairs(i + 1, i + 2, n)
    ELSE << << i, k >> >> \o Vec_Pairs(i, k + 1, n)

RECURSIVE Vec_Triples(_, _, _, _)
Vec_Triples(i, k, j, n) ==
    IF i >= n - 1 THEN << >>
    ELSE IF k >= n THEN Vec_Triples(i + 1, i + 2, i + 3, n)
    ELSE IF j > n THEN Vec_Triples(i, k + 1, k + 2, n)
    ELSE << << i, k, j >> >> \o Vec_Triples(i, k, j + 1, n)

Abc_ManResubQuit0(p, pObj) ==
    LET g0 == Dec_GraphSetLeaf(Dec_GraphCreate(1), 0, pObj)
        g1 == ([g0 EXCEPT !.eRoot = Dec_EdgeCreate(0, (p.sim[Abc_ObjId(pObj)].fPhase))])
    IN IF (p.sim[(Len(p.vDivs))].fPhase) = 1 THEN Dec_GraphComplement(g1) ELSE g1

\* the edge to leaf i of the graph for the divisor literal pObj
Abc_ManResubEdge(p, i, pObj) ==
    Dec_EdgeCreate(i, ((p.sim[Abc_ObjId(pObj)].fPhase) + Abc_ObjIsComplement(pObj)) % 2)

Abc_ManResubQuit1NoPhase(p, pObj0, pObj1, fOrGate) ==
    LET g0 == Dec_GraphSetLeaf(Dec_GraphSetLeaf(Dec_GraphCreate(2),
                    0, Abc_ObjRegular(pObj0)), 1, Abc_ObjRegular(pObj1))
        eNode0 == Dec_EdgeCreate(0, Abc_ObjIsComplement(pObj0))
        eNode1 == Dec_EdgeCreate(1, Abc_ObjIsComplement(pObj1))
        r == IF fOrGate = 1 THEN Dec_GraphAddNodeOr(g0, eNode0, eNode1)
             ELSE Dec_GraphAddNodeAnd(g0, eNode0, eNode1)
        g1 == ([r.g EXCEPT !.eRoot = r.e])
    IN IF (p.sim[(Len(p.vDivs))].fPhase) = 1 THEN Dec_GraphComplement(g1) ELSE g1

Abc_ManResubQuit1(p, pObj0, pObj1, fOrGate) ==
    LET g0 == Dec_GraphSetLeaf(Dec_GraphSetLeaf(Dec_GraphCreate(2),
                    0, Abc_ObjRegular(pObj0)), 1, Abc_ObjRegular(pObj1))
        eNode0 == Abc_ManResubEdge(p, 0, pObj0)
        eNode1 == Abc_ManResubEdge(p, 1, pObj1)
        r == IF fOrGate = 1 THEN Dec_GraphAddNodeOr(g0, eNode0, eNode1)
             ELSE Dec_GraphAddNodeAnd(g0, eNode0, eNode1)
        g1 == ([r.g EXCEPT !.eRoot = r.e])
    IN IF (p.sim[(Len(p.vDivs))].fPhase) = 1 THEN Dec_GraphComplement(g1) ELSE g1

Abc_ManResubQuit21(p, pObj0, pObj1, pObj2, fOrGate) ==
    LET g0 == Dec_GraphSetLeaf(Dec_GraphSetLeaf(Dec_GraphSetLeaf(Dec_GraphCreate(3),
                    0, Abc_ObjRegular(pObj0)), 1, Abc_ObjRegular(pObj1)),
                    2, Abc_ObjRegular(pObj2))
        eNode0 == Abc_ManResubEdge(p, 0, pObj0)
        eNode1 == Abc_ManResubEdge(p, 1, pObj1)
        eNode2 == Abc_ManResubEdge(p, 2, pObj2)
        r1 == IF fOrGate = 1 THEN Dec_GraphAddNodeOr(g0, eNode0, eNode1)
              ELSE Dec_GraphAddNodeAnd(g0, eNode0, eNode1)
        r2 == IF fOrGate = 1 THEN Dec_GraphAddNodeOr(r1.g, eNode2, r1.e)
              ELSE Dec_GraphAddNodeAnd(r1.g, eNode2, r1.e)
        g1 == ([r2.g EXCEPT !.eRoot = r2.e])
    IN IF (p.sim[(Len(p.vDivs))].fPhase) = 1 THEN Dec_GraphComplement(g1) ELSE g1

\* the gate of a pair of the two-level lists: both literals complemented
\* stand for the OR of the two divisors
Abc_ManResubQuitPair(p, pGraph, i, pObj1, k, pObj2) ==
    IF Abc_ObjIsComplement(pObj1) = 1 /\ Abc_ObjIsComplement(pObj2) = 1
    THEN Dec_GraphAddNodeOr(pGraph,
            Dec_EdgeCreate(i, (p.sim[Abc_ObjId(pObj1)].fPhase)),
            Dec_EdgeCreate(k, (p.sim[Abc_ObjId(pObj2)].fPhase)))
    ELSE Dec_GraphAddNodeAnd(pGraph,
            Abc_ManResubEdge(p, i, pObj1), Abc_ManResubEdge(p, k, pObj2))

Abc_ManResubQuit2(p, pObj0, pObj1, pObj2, fOrGate) ==
    LET g0 == Dec_GraphSetLeaf(Dec_GraphSetLeaf(Dec_GraphSetLeaf(Dec_GraphCreate(3),
                    0, Abc_ObjRegular(pObj0)), 1, Abc_ObjRegular(pObj1)),
                    2, Abc_ObjRegular(pObj2))
        eNode0 == Abc_ManResubEdge(p, 0, pObj0)
        rPrev == Abc_ManResubQuitPair(p, g0, 1, pObj1, 2, pObj2)
        r == IF fOrGate = 1 THEN Dec_GraphAddNodeOr(rPrev.g, eNode0, rPrev.e)
             ELSE Dec_GraphAddNodeAnd(rPrev.g, eNode0, rPrev.e)
        g1 == ([r.g EXCEPT !.eRoot = r.e])
    IN IF (p.sim[(Len(p.vDivs))].fPhase) = 1 THEN Dec_GraphComplement(g1) ELSE g1

Abc_ManResubQuit3(p, pObj0, pObj1, pObj2, pObj3, fOrGate) ==
    LET g0 == Dec_GraphSetLeaf(Dec_GraphSetLeaf(Dec_GraphSetLeaf(Dec_GraphSetLeaf(
                    Dec_GraphCreate(4),
                    0, Abc_ObjRegular(pObj0)), 1, Abc_ObjRegular(pObj1)),
                    2, Abc_ObjRegular(pObj2)), 3, Abc_ObjRegular(pObj3))
        rPrev0 == Abc_ManResubQuitPair(p, g0, 0, pObj0, 1, pObj1)
        rPrev1 == Abc_ManResubQuitPair(p, rPrev0.g, 2, pObj2, 3, pObj3)
        r == IF fOrGate = 1 THEN Dec_GraphAddNodeOr(rPrev1.g, rPrev0.e, rPrev1.e)
             ELSE Dec_GraphAddNodeAnd(rPrev1.g, rPrev0.e, rPrev1.e)
        g1 == ([r.g EXCEPT !.eRoot = r.e])
    IN IF (p.sim[(Len(p.vDivs))].fPhase) = 1 THEN Dec_GraphComplement(g1) ELSE g1

Abc_ManResubDivsS(p) ==
    LET \* the list a divisor goes to and the literal that is pushed
        Entry(i) ==
            LET pObj == 2 * i
                puData == Abc_ManResubData(p, pObj)
                puDataR == Abc_ManResubDataR(p)
            IN IF puData \cap Abc_InfoNot(puDataR) = {}
                    THEN [list |-> "UP", pObj |-> pObj]
               ELSE IF Abc_InfoNot(puData) \cap Abc_InfoNot(puDataR) = {}
                    THEN [list |-> "UP", pObj |-> Abc_ObjNot(pObj)]
               ELSE IF Abc_InfoNot(puData) \cap puDataR = {}
                    THEN [list |-> "UN", pObj |-> pObj]
               ELSE IF puData \cap puDataR = {}
                    THEN [list |-> "UN", pObj |-> Abc_ObjNot(pObj)]
               ELSE [list |-> "B", pObj |-> pObj]
        all == [i \in 1 .. p.nDivs |-> Entry(i)] \o << >>
        List(list) ==
            LET sel == SelectSeq(all, LAMBDA e : e.list = list)
            IN [i \in 1 .. Len(sel) |-> sel[i].pObj] \o << >>
    IN [p EXCEPT !.vDivs1UP = List("UP"), !.vDivs1UN = List("UN"), !.vDivs1B = List("B")]

Abc_ManResubDivsD(p) ==
    LET \* the pairs that one pair of binate divisors adds to the positive lists
        DivsDUP(pObj0, pObj1) ==
            LET puData0 == Abc_ManResubData(p, pObj0)
                puData1 == Abc_ManResubData(p, pObj1)
                nR == Abc_InfoNot(Abc_ManResubDataR(p))
            IN (IF (puData0 \cap puData1) \cap nR = {}
                THEN << << pObj0, pObj1 >> >> ELSE << >>)
               \o (IF (Abc_InfoNot(puData0) \cap puData1) \cap nR = {}
                   THEN << << Abc_ObjNot(pObj0), pObj1 >> >> ELSE << >>)
               \o (IF (puData0 \cap Abc_InfoNot(puData1)) \cap nR = {}
                   THEN << << pObj0, Abc_ObjNot(pObj1) >> >> ELSE << >>)
               \o (IF (puData0 \cup puData1) \cap nR = {}
                   THEN << << Abc_ObjNot(pObj0), Abc_ObjNot(pObj1) >> >> ELSE << >>)
        \* and to the negative lists
        DivsDUN(pObj0, pObj1) ==
            LET puData0 == Abc_ManResubData(p, pObj0)
                puData1 == Abc_ManResubData(p, pObj1)
                puDataR == Abc_ManResubDataR(p)
            IN (IF Abc_InfoNot(puData0 \cap puData1) \cap puDataR = {}
                THEN << << pObj0, pObj1 >> >> ELSE << >>)
               \o (IF Abc_InfoNot(Abc_InfoNot(puData0) \cap puData1) \cap puDataR = {}
                   THEN << << Abc_ObjNot(pObj0), pObj1 >> >> ELSE << >>)
               \o (IF Abc_InfoNot(puData0 \cap Abc_InfoNot(puData1)) \cap puDataR = {}
                   THEN << << pObj0, Abc_ObjNot(pObj1) >> >> ELSE << >>)
               \o (IF Abc_InfoNot(puData0 \cup puData1) \cap puDataR = {}
                   THEN << << Abc_ObjNot(pObj0), Abc_ObjNot(pObj1) >> >> ELSE << >>)
        pairs == Vec_Pairs(1, 2, Len(p.vDivs1B))
        RECURSIVE Loop(_, _, _)
        Loop(j, vUP, vUN) ==
            IF j > Len(pairs) THEN [vUP |-> vUP, vUN |-> vUN]
            ELSE LET pObj0 == p.vDivs1B[pairs[j][1]]
                     pObj1 == p.vDivs1B[pairs[j][2]]
                 IN Loop(j + 1,
                         IF Len(vUP) < ABC_RS_DIV2_MAX
                         THEN vUP \o DivsDUP(pObj0, pObj1) ELSE vUP,
                         IF Len(vUN) < ABC_RS_DIV2_MAX
                         THEN vUN \o DivsDUN(pObj0, pObj1) ELSE vUN)
        r == Loop(1, << >>, << >>)
    IN [p EXCEPT !.vDivs2UP0 = [k \in 1 .. Len(r.vUP) |-> r.vUP[k][1]] \o << >>,
                 !.vDivs2UP1 = [k \in 1 .. Len(r.vUP) |-> r.vUP[k][2]] \o << >>,
                 !.vDivs2UN0 = [k \in 1 .. Len(r.vUN) |-> r.vUN[k][1]] \o << >>,
                 !.vDivs2UN1 = [k \in 1 .. Len(r.vUN) |-> r.vUN[k][2]] \o << >>]

Abc_ManResubQuit(p) ==
    IF Abc_ManResubDataR(p) # {} THEN Dec_GraphNull
    ELSE IF (p.sim[(Len(p.vDivs))].fPhase) = 1 THEN Dec_GraphCreateConst1
    ELSE Dec_GraphCreateConst0

Abc_ManResubDivs0(p) ==
    LET i == Vec_First({ d \in 1 .. p.nDivs : Abc_ManResubData(p, 2 * d) = Abc_ManResubDataR(p) })
    IN IF i = 0 THEN Dec_GraphNull ELSE Abc_ManResubQuit0(p, 2 * i)

\* the info of a divisor literal
Abc_ManResubLit(p, pObj) ==
    Abc_InfoNotCond(Abc_ManResubData(p, pObj), Abc_ObjIsComplement(pObj))

Abc_ManResubDivs1(p) ==
    LET \* the test of the last of the three statements of the negative loop: the
        \* first two set w and the third, which has no else in front, sets it again
        TestN(pObj0, pObj1) ==
            LET puData0 == Abc_ManResubData(p, pObj0)
                puData1 == Abc_ManResubData(p, pObj1)
                puDataR == Abc_ManResubDataR(p)
                C0 == Abc_ObjIsComplement(pObj0) = 1
                C1 == Abc_ObjIsComplement(pObj1) = 1
                w1 == IF C0 /\ C1
                      THEN Abc_InfoNot(puData0) \cap Abc_InfoNot(puData1) = puDataR
                      ELSE FALSE
                w2 == IF C0 THEN Abc_InfoNot(puData0) \cap puData1 = puDataR ELSE w1
                w3 == IF C1 THEN puData0 \cap Abc_InfoNot(puData1) = puDataR
                      ELSE puData0 \cap puData1 = puDataR
            IN w3
        vP == Vec_Pairs(1, 2, Len(p.vDivs1UP))
        iP == Vec_First({ j \in 1 .. Len(vP) :
                Abc_ManResubLit(p, p.vDivs1UP[vP[j][1]])
                    \cup Abc_ManResubLit(p, p.vDivs1UP[vP[j][2]])
                = Abc_ManResubDataR(p) })
        vN == Vec_Pairs(1, 2, Len(p.vDivs1UN))
        iN == Vec_First({ j \in 1 .. Len(vN) :
                TestN(p.vDivs1UN[vN[j][1]], p.vDivs1UN[vN[j][2]]) })
    IN IF iP # 0
       THEN Abc_ManResubQuit1(p, p.vDivs1UP[vP[iP][1]], p.vDivs1UP[vP[iP][2]], 1)
       ELSE IF iN # 0
       THEN Abc_ManResubQuit1(p, p.vDivs1UN[vN[iN][1]], p.vDivs1UN[vN[iN][2]], 0)
       ELSE Dec_GraphNull

Abc_ManResubDivs12(p) ==
    LET \* whether exactly one of the three divisors has the largest level, and
        \* the triple reordered as (pObjMin0, pObjMin1, pObjMax)
        Max(pObj0, pObj1, pObj2) ==
            LET L0 == (p.vDivs[Abc_ObjId(pObj0)].Level)
                L1 == (p.vDivs[Abc_ObjId(pObj1)].Level)
                L2 == (p.vDivs[Abc_ObjId(pObj2)].Level)
                LevelMax == IF L0 >= L1 /\ L0 >= L2 THEN L0 ELSE IF L1 >= L2 THEN L1 ELSE L2
            IN IF L0 = LevelMax
               THEN IF L1 = LevelMax \/ L2 = LevelMax THEN << >> ELSE << pObj1, pObj2, pObj0 >>
               ELSE IF L1 = LevelMax
               THEN IF L2 = LevelMax THEN << >> ELSE << pObj0, pObj2, pObj1 >>
               ELSE << pObj0, pObj1, pObj2 >>
        vP == Vec_Triples(1, 2, 3, Len(p.vDivs1UP))
        TP(j) == << p.vDivs1UP[vP[j][1]], p.vDivs1UP[vP[j][2]], p.vDivs1UP[vP[j][3]] >>
        iP == Vec_First({ j \in 1 .. Len(vP) :
                /\ Abc_ManResubLit(p, TP(j)[1]) \cup Abc_ManResubLit(p, TP(j)[2])
                        \cup Abc_ManResubLit(p, TP(j)[3]) = Abc_ManResubDataR(p)
                /\ Max(TP(j)[1], TP(j)[2], TP(j)[3]) # << >> })
        vN == Vec_Triples(1, 2, 3, Len(p.vDivs1UN))
        TN(j) == << p.vDivs1UN[vN[j][1]], p.vDivs1UN[vN[j][2]], p.vDivs1UN[vN[j][3]] >>
        iN == Vec_First({ j \in 1 .. Len(vN) :
                /\ Abc_ManResubLit(p, TN(j)[1]) \cap Abc_ManResubLit(p, TN(j)[2])
                        \cap Abc_ManResubLit(p, TN(j)[3]) = Abc_ManResubDataR(p)
                /\ Max(TN(j)[1], TN(j)[2], TN(j)[3]) # << >> })
    IN IF iP # 0
       THEN LET m == Max(TP(iP)[1], TP(iP)[2], TP(iP)[3])
            IN Abc_ManResubQuit21(p, m[1], m[2], m[3], 1)
       ELSE IF iN # 0
       THEN LET m == Max(TN(iN)[1], TN(iN)[2], TN(iN)[3])
            IN Abc_ManResubQuit21(p, m[1], m[2], m[3], 0)
       ELSE Dec_GraphNull

\* the info of a pair of the two-level lists
Abc_ManResubPair(p, pObj1, pObj2) ==
    IF Abc_ObjIsComplement(pObj1) = 1 /\ Abc_ObjIsComplement(pObj2) = 1
    THEN Abc_ManResubData(p, pObj1) \cup Abc_ManResubData(p, pObj2)
    ELSE Abc_ManResubLit(p, pObj1) \cap Abc_ManResubLit(p, pObj2)

Abc_ManResubDivs2(p) ==
    LET nP == Len(p.vDivs2UP0)
        nN == Len(p.vDivs2UN0)
        \* (i, k) of the nested loops from the position j in their order
        IdxP(j) == ((j - 1) \div nP) + 1
        KP(j) == ((j - 1) % nP) + 1
        IdxN(j) == ((j - 1) \div nN) + 1
        KN(j) == ((j - 1) % nN) + 1
        iP == Vec_First({ j \in 1 .. Len(p.vDivs1UP) * nP :
                Abc_ManResubLit(p, p.vDivs1UP[IdxP(j)])
                    \cup Abc_ManResubPair(p, p.vDivs2UP0[KP(j)], p.vDivs2UP1[KP(j)])
                = Abc_ManResubDataR(p) })
        iN == Vec_First({ j \in 1 .. Len(p.vDivs1UN) * nN :
                Abc_ManResubLit(p, p.vDivs1UN[IdxN(j)])
                    \cap Abc_ManResubPair(p, p.vDivs2UN0[KN(j)], p.vDivs2UN1[KN(j)])
                = Abc_ManResubDataR(p) })
    IN IF iP # 0
       THEN Abc_ManResubQuit2(p, p.vDivs1UP[IdxP(iP)],
                p.vDivs2UP0[KP(iP)], p.vDivs2UP1[KP(iP)], 1)
       ELSE IF iN # 0
       THEN Abc_ManResubQuit2(p, p.vDivs1UN[IdxN(iN)],
                p.vDivs2UN0[KN(iN)], p.vDivs2UN1[KN(iN)], 0)
       ELSE Dec_GraphNull

Abc_ManResubDivs3(p) ==
    LET vP == Vec_Pairs(1, 2, Len(p.vDivs2UP0))
        iP == Vec_First({ j \in 1 .. Len(vP) :
                Abc_ManResubPair(p, p.vDivs2UP0[vP[j][1]], p.vDivs2UP1[vP[j][1]])
                    \cup Abc_ManResubPair(p, p.vDivs2UP0[vP[j][2]], p.vDivs2UP1[vP[j][2]])
                = Abc_ManResubDataR(p) })
    IN IF iP = 0 THEN Dec_GraphNull
       ELSE Abc_ManResubQuit3(p, p.vDivs2UP0[vP[iP][1]], p.vDivs2UP1[vP[iP][1]],
                p.vDivs2UP0[vP[iP][2]], p.vDivs2UP1[vP[iP][2]], 1)

\* the graph found for the root (Dec_GraphNull when there is none) and the
\* gain of the replacement
Abc_ManResubEval(vDivs, nLeaves, nMffc, nSteps) ==
    LET \* the manager after the divisors were collected
        p0 == [vDivs |-> vDivs, nLeaves |-> nLeaves, nDivs |-> Len(vDivs) - 1,
               nMffc |-> nMffc, sim |-> << >>,
               vDivs1UP |-> << >>, vDivs1UN |-> << >>, vDivs1B |-> << >>,
               vDivs2UP0 |-> << >>, vDivs2UP1 |-> << >>,
               vDivs2UN0 |-> << >>, vDivs2UN1 |-> << >>]
        p1 == [p0 EXCEPT !.sim = Abc_ManResubSimulate(vDivs, nLeaves)]
        pS == Abc_ManResubDivsS(p1)
        pD == Abc_ManResubDivsD(pS)
        gC == Abc_ManResubQuit(p1)
        g0 == Abc_ManResubDivs0(p1)
        g1 == Abc_ManResubDivs1(pS)
        g12 == Abc_ManResubDivs12(pS)
        g2 == Abc_ManResubDivs2(pD)
        g3 == Abc_ManResubDivs3(pD)
        Ret(g, gain) == [pGraph |-> g, nLastGain |-> gain]
    IN IF p0.nDivs - nLeaves + nMffc >= ABC_RS_DIV1_MAX - nLeavesMax
            THEN Ret(Dec_GraphNull, 0 - 1)
       ELSE IF gC # Dec_GraphNull THEN Ret(gC, nMffc)
       ELSE IF g0 # Dec_GraphNull THEN Ret(g0, nMffc)
       ELSE IF nSteps = 0 \/ nMffc = 1 THEN Ret(Dec_GraphNull, 0 - 1)
       ELSE IF g1 # Dec_GraphNull THEN Ret(g1, nMffc - 1)
       ELSE IF nSteps = 1 \/ nMffc = 2 THEN Ret(Dec_GraphNull, 0 - 1)
       ELSE IF g12 # Dec_GraphNull THEN Ret(g12, nMffc - 2)
       ELSE IF g2 # Dec_GraphNull THEN Ret(g2, nMffc - 2)
       ELSE IF nSteps = 2 \/ nMffc = 3 THEN Ret(Dec_GraphNull, 0 - 1)
       ELSE IF g3 # Dec_GraphNull THEN Ret(g3, nMffc - 3)
       ELSE Ret(Dec_GraphNull, 0 - 1)

\* the info of node i (from 0) of a graph whose leaves stand for entries of
\* vInfo, and of the root that Dec_GraphToNetwork returns: the last node
Dec_GraphToInfo(vInfo, pGraph) ==
    LET RECURSIVE NodeInfo(_)
        NodeInfo(i) ==
            LET pNode == (pGraph.pNodes[i + 1]) IN
            IF i < pGraph.nLeaves THEN vInfo[Abc_ObjId(pNode.pFunc)]
            ELSE Abc_InfoNotCond(NodeInfo(pNode.eEdge0.Node), pNode.eEdge0.fCompl)
                 \cap Abc_InfoNotCond(NodeInfo(pNode.eEdge1.Node), pNode.eEdge1.fCompl)
    IN IF (pGraph.fConst = 1)
       THEN Abc_InfoNotCond(Abc_ManResubPatterns, pGraph.eRoot.fCompl)
       ELSE IF (pGraph.eRoot.Node < pGraph.nLeaves)
       THEN Abc_InfoNotCond(vInfo[Abc_ObjId(((pGraph.pNodes[pGraph.eRoot.Node + 1])).pFunc)],
                            pGraph.eRoot.fCompl)
       ELSE Abc_InfoNotCond(NodeInfo(Len(pGraph.pNodes) - 1), pGraph.eRoot.fCompl)

(***************************************************************************)
(* The evaluation of one root by resub: the cut, the divisors collected    *)
(* above its leaves, the function of the root, the size of its MFFC and    *)
(* the limit on the added nodes (resub -N) are the inputs                  *)
(***************************************************************************)
Abc_ResubObj(Fanin0, fCompl0, Fanin1, fCompl1, Level, puData) ==
    [Fanin0 |-> Fanin0, fCompl0 |-> fCompl0, Fanin1 |-> Fanin1, fCompl1 |-> fCompl1,
     Level |-> Level, puData |-> puData]

InitResub ==
    /\ aig = Aig_ManStart
    /\ ntk = Abc_NtkAlloc
    \* the leaves of the cut: at most one of them above level 0
    /\ \E nLeaves \in 2 .. nLeavesMax :
       \E iHigh \in 1 .. nLeaves, Level \in 0 .. MaxLeafLevel :
            man = [stage |-> "collect", nLeaves |-> nLeaves,
                   vDivs |-> [i \in 1 .. nLeaves |->
                                Abc_ResubObj(NULL, 0, NULL, 0,
                                             IF i = iHigh THEN Level ELSE 0, {})],
                   pGraph |-> Dec_GraphNull, nAdded |-> 0 - 1]

\* one more divisor is collected: an AND node of two entries of vDivs
ResubCollectDiv ==
    /\ man.stage = "collect"
    /\ Len(man.vDivs) - man.nLeaves < MaxCollected
    /\ \E i0 \in 1 .. Len(man.vDivs), i1 \in 1 .. Len(man.vDivs), c0 \in 0 .. 1, c1 \in 0 .. 1 :
        /\ i0 < i1
        /\ \A i \in 1 .. Len(man.vDivs) :
                << man.vDivs[i].Fanin0, man.vDivs[i].fCompl0,
                   man.vDivs[i].Fanin1, man.vDivs[i].fCompl1 >> # << i0, c0, i1, c1 >>
        /\ man' = [man EXCEPT !.vDivs = Append(@,
                        Abc_ResubObj(i0, c0, i1, c1,
                            1 + (IF man.vDivs[i0].Level > man.vDivs[i1].Level
                                 THEN man.vDivs[i0].Level ELSE man.vDivs[i1].Level),
                            {}))]
    /\ UNCHANGED << aig, ntk >>

\* the root is evaluated
ResubEval ==
    /\ man.stage = "collect"
    /\ \E f \in SUBSET (0 .. 2 ^ man.nLeaves - 1), nMffc \in 1 .. MaxMffc, nSteps \in 0 .. 3 :
        LET puData == { i \in Abc_ManResubPatterns : i % (2 ^ man.nLeaves) \in f }
            vDivs == Append(man.vDivs, Abc_ResubObj(NULL, 0, NULL, 0, 0, puData))
            r == Abc_ManResubEval(vDivs, man.nLeaves, nMffc, nSteps)
        IN man' = [man EXCEPT !.stage = "eval", !.vDivs = vDivs,
                              !.pGraph = r.pGraph,
                              !.nAdded = IF r.pGraph = Dec_GraphNull THEN 0 - 1
                                         ELSE nMffc - r.nLastGain]
    /\ UNCHANGED << aig, ntk >>

NextResub == ResubCollectDiv \/ ResubEval

SpecResub == InitResub /\ [][NextResub]_vars

(***************************************************************************)
(* Claims about the divisor search of resub                                *)
(***************************************************************************)
\* the functions of the entries of vDivs over the patterns of the leaves
ResubInfo == [i \in 1 .. Len(man.vDivs) |->
                Abc_ManResubSimulateObj(man.vDivs, man.nLeaves, i)]

\* C2: every replacement that the divisor search returns (a constant, a
\* divisor, or one, two or three AND/OR gates over divisors of any
\* polarity) has the function of the root on every pattern of the cut
\* leaves (the care set is all patterns), and adds as many gates as the
\* gain accounts for
C2_ResubSound ==
    (man.stage = "eval" /\ man.pGraph # Dec_GraphNull) =>
        /\ Dec_GraphToInfo(ResubInfo, man.pGraph) = ResubInfo[Len(man.vDivs)]
        /\ \A i \in 0 .. man.pGraph.nLeaves - 1 :
                Abc_ObjId((man.pGraph.pNodes[i + 1]).pFunc) \in 1 .. Len(man.vDivs) - 1
        /\ (Len(man.pGraph.pNodes) - man.pGraph.nLeaves) = man.nAdded

\* a three-gate replacement of a root whose info was complemented, over a
\* divisor whose info was complemented
C2_Witness ==
    /\ (man.stage = "eval" /\ man.pGraph # Dec_GraphNull)
    /\ (Len(man.pGraph.pNodes) - man.pGraph.nLeaves) = 3
    /\ 0 \in ResubInfo[Len(man.vDivs)]
    /\ \E i \in 0 .. man.pGraph.nLeaves - 1 :
            0 \in ResubInfo[Abc_ObjId((man.pGraph.pNodes[i + 1]).pFunc)]

(***************************************************************************)
(* Balancing (abcBalance.c).  The source network is read only; the new     *)
(* network and the pCopy fields of the source objects are threaded through *)
(* the recursion as a record [ntk, pCopy, ok, res]: ok is the conjunction  *)
(* of the assertions passed so far, res the edge the last call returned.   *)
(***************************************************************************)
MaxBalPis == 3
MaxBalNodes == 3
MaxBalPos == 1

\* Abc_NodeCompareLevelsDecrease: higher level first, then higher Id first
Abc_NodeCompareLevelsDecrease(n, p1, p2) ==
    LET Diff  == Abc_NtkObj(n, Abc_ObjId(p1)).Level - Abc_NtkObj(n, Abc_ObjId(p2)).Level
        Diff2 == Abc_ObjId(p1) - Abc_ObjId(p2)
    IN IF Diff > 0 THEN 0 - 1
       ELSE IF Diff < 0 THEN 1
       ELSE IF Diff2 > 0 THEN 0 - 1
       ELSE IF Diff2 < 0 THEN 1
       ELSE 0

\* Vec_PtrSort with this comparison.  Two entries that compare equal (an
\* edge and its complement, or twice the same edge) have no specified
\* order: fTie = 1 puts the later one first, fTie = 0 the earlier one.
RECURSIVE Vec_PtrSort(_, _, _)
Vec_PtrSort(n, v, fTie) ==
    LET RECURSIVE Insert(_, _)
        Insert(w, e) ==
            IF w = << >> THEN << e >>
            ELSE LET c == Abc_NodeCompareLevelsDecrease(n, e, Head(w)) IN
                 IF c < 0 \/ (c = 0 /\ fTie = 1) THEN << e >> \o w
                 ELSE << Head(w) >> \o Insert(Tail(w), e)
    IN IF v = << >> THEN << >>
       ELSE Insert(Vec_PtrSort(n, SubSeq(v, 1, Len(v) - 1), fTie), v[Len(v)])

\* Abc_VecObjPushUniqueOrderByLevel: an edge already in the vector is not
\* pushed again; the pushed entry moves toward the front while its level is
\* above its left neighbour's
Abc_VecObjPushUniqueOrderByLevel(n, p, pNode) ==
    LET RECURSIVE Order(_, _)
        Order(q, i) ==
            IF i <= 1 THEN q
            ELSE IF Abc_NtkObj(n, Abc_ObjId(q[i])).Level <= Abc_NtkObj(n, Abc_ObjId(q[i - 1])).Level
                 THEN q
            ELSE Order([q EXCEPT ![i] = q[i - 1], ![i - 1] = q[i]], i - 1)
    IN IF \E i \in 1 .. Len(p) : p[i] = pNode THEN p
       ELSE Order(Append(p, pNode), Len(p) + 1)

\* Abc_NodeBalancePermute with LeftBound = 0: the entry nearest to the end
\* whose AND with the last entry exists already is moved next to the last
Abc_NodeBalancePermute(pNtkNew, vSuper) ==
    LET RightBound == Len(vSuper) - 1
        pNode1 == vSuper[RightBound + 1]
        pNode2 == vSuper[RightBound]
        S == { i \in 1 .. RightBound : Abc_AigAndLookup(pNtkNew, pNode1, vSuper[i]) # NULL }
        i == CHOOSE k \in S : \A j \in S : j <= k
    IN IF RightBound = 1 \/ S = {} THEN vSuper
       ELSE IF vSuper[i] = pNode2 THEN vSuper
       ELSE [vSuper EXCEPT ![i] = pNode2, ![RightBound] = vSuper[i]]

\* Abc_NodeBalanceCone_rec on the record s = [vSuper, fMarkB, RetValue, ok],
\* fMarkB the set of the marked objects
RECURSIVE Abc_NodeBalanceCone_rec(_, _, _, _, _, _)
Abc_NodeBalanceCone_rec(n, s, pNode, fFirst, fDuplicate, fSelective) ==
    LET id == Abc_ObjId(pNode) IN
    IF id \in s.fMarkB
    THEN IF \E i \in 1 .. Len(s.vSuper) : s.vSuper[i] = pNode
         THEN [s EXCEPT !.RetValue = 1]
         ELSE IF \E i \in 1 .. Len(s.vSuper) : s.vSuper[i] = Abc_ObjNot(pNode)
         THEN [s EXCEPT !.RetValue = 0 - 1]
         ELSE [s EXCEPT !.RetValue = 0, !.ok = FALSE]
    ELSE IF fFirst = 0 /\ ( \/ Abc_ObjIsComplement(pNode) = 1
                            \/ ~Abc_ObjIsNode(n, id)
                            \/ (fDuplicate = 0 /\ fSelective = 0 /\ Abc_ObjFanoutNum(n, id) > 1)
                            \/ Len(s.vSuper) > 10000 )
    THEN [s EXCEPT !.vSuper = Append(@, pNode), !.fMarkB = @ \cup {id}, !.RetValue = 0]
    ELSE LET Ret(RetValue1, s2) ==
                [s2 EXCEPT !.RetValue =
                    IF RetValue1 = 0 - 1 \/ s2.RetValue = 0 - 1 THEN 0 - 1
                    ELSE IF RetValue1 # 0 \/ s2.RetValue # 0 THEN 1 ELSE 0]
             Second(s1) ==
                Ret(s1.RetValue,
                    Abc_NodeBalanceCone_rec(n, s1, Abc_ObjChild1(n, id), 0, fDuplicate, fSelective))
         IN Second(Abc_NodeBalanceCone_rec(n, s, Abc_ObjChild0(n, id), 0, fDuplicate, fSelective))

\* Abc_NodeBalanceCone: the supergate of a node, emptied when it holds an
\* edge in both polarities; the marks are all cleared on return
Abc_NodeBalanceCone(n, pNode, fDuplicate, fSelective) ==
    LET Cone(s) == [vSuper |-> IF s.RetValue = 0 - 1 THEN << >> ELSE s.vSuper,
                    ok |-> s.ok /\ Len(s.vSuper) > 1]
    IN Cone(Abc_NodeBalanceCone_rec(n, [vSuper |-> << >>, fMarkB |-> {},
                                        RetValue |-> 0, ok |-> TRUE],
                                    (2 * pNode), 1, fDuplicate, fSelective))

\* the loop of Abc_NodeBalance_rec that ANDs the last two entries of the
\* supergate until one edge is left
RECURSIVE Abc_NodeBalanceSuper(_, _)
Abc_NodeBalanceSuper(pNtkNew, vSuper) ==
    IF Len(vSuper) <= 1 THEN [ntk |-> pNtkNew, vSuper |-> vSuper]
    ELSE LET Push(v1, r) ==
                Abc_NodeBalanceSuper(r.ntk,
                    Abc_VecObjPushUniqueOrderByLevel(r.ntk, SubSeq(v1, 1, Len(v1) - 2), r.res))
             \* pNode1 and pNode2 are the last two entries after the permutation
             And(v1) == Push(v1, Abc_AigAnd(pNtkNew, v1[Len(v1)], v1[Len(v1) - 1]))
         IN And(Abc_NodeBalancePermute(pNtkNew, vSuper))

\* Abc_NodeBalance_rec.  The supergate of the call at depth Level is entry
\* Level of vStorage, which no deeper call writes.
RECURSIVE Abc_NodeBalance_rec(_, _, _, _, _, _)
RECURSIVE Abc_NodeBalanceEntries(_, _, _, _, _, _, _)
Abc_NodeBalanceEntriesNoCompl(n, b, vSuper, i, fDuplicate, fSelective, fTie) ==
    IF i > Len(vSuper) THEN [b |-> b, vSuper |-> vSuper]
    ELSE LET Rest(b1) ==
                Abc_NodeBalanceEntries(n, b1, [vSuper EXCEPT ![i] = b1.res], i + 1,
                                       fDuplicate, fSelective, fTie)
         IN Rest(Abc_NodeBalance_rec(n, b, Abc_ObjId(vSuper[i]), fDuplicate, fSelective, fTie))

Abc_NodeBalanceEntries(n, b, vSuper, i, fDuplicate, fSelective, fTie) ==
    IF i > Len(vSuper) THEN [b |-> b, vSuper |-> vSuper]
    ELSE LET pNodeNew(b1) == Abc_ObjNotCond(b1.res, Abc_ObjIsComplement(vSuper[i]))
             Rest(b1) ==
                Abc_NodeBalanceEntries(n, b1, [vSuper EXCEPT ![i] = pNodeNew(b1)], i + 1,
                                       fDuplicate, fSelective, fTie)
         IN Rest(Abc_NodeBalance_rec(n, b, Abc_ObjId(vSuper[i]), fDuplicate, fSelective, fTie))

Abc_NodeBalance_rec(n, b, pNodeOld, fDuplicate, fSelective, fTie) ==
    IF b.pCopy[pNodeOld + 1] # NULL THEN [b EXCEPT !.res = b.pCopy[pNodeOld + 1]]
    ELSE LET \* the new node l.vSuper[1] built from the balanced entries m
             Done(m, l) ==
                [ntk |-> l.ntk,
                 pCopy |-> [m.b.pCopy EXCEPT ![pNodeOld + 1] = l.vSuper[1]],
                 ok |-> m.b.ok /\ m.b.pCopy[pNodeOld + 1] = NULL,
                 res |-> l.vSuper[1]]
             Super(m) ==
                Done(m, Abc_NodeBalanceSuper(m.b.ntk, Vec_PtrSort(m.b.ntk, m.vSuper, fTie)))
             \* c is the supergate of the node
             Cone(c, b0) ==
                IF Len(c.vSuper) = 0
                THEN [b0 EXCEPT !.pCopy[pNodeOld + 1] = Abc_ObjNot(Abc_AigConst1),
                                !.res = Abc_ObjNot(Abc_AigConst1)]
                ELSE Super(Abc_NodeBalanceEntries(n, b0, c.vSuper, 1,
                                                  fDuplicate, fSelective, fTie))
             Start(c) == Cone(c, [b EXCEPT !.ok = @ /\ c.ok /\ Abc_ObjIsNode(n, pNodeOld)])
         IN Start(Abc_NodeBalanceCone(n, pNodeOld, fDuplicate, fSelective))

\* Abc_NtkIsAcyclic: no node in the cones of the COs lies on a path that
\* returns to it
Abc_NtkIsAcyclic(n) ==
    LET vDrivers == { Abc_ObjFaninId0(n, n.vCos[i]) : i \in 1 .. Len(n.vCos) } IN
    \A id \in Abc_NtkTfi(n, vDrivers) :
        Abc_ObjIsNode(n, id) =>
        id \notin Abc_NtkTfi(n, { Abc_NtkObj(n, id).vFanins[k] :
                                    k \in 1 .. (Len(Abc_NtkObj(n, id).vFanins)) })

\* Abc_NtkCheckObj: every fanin has the object as a fanout and every fanout
\* has it as a fanin
Abc_NtkCheckObj(n, id) ==
    /\ \A k \in 1 .. (Len(Abc_NtkObj(n, id).vFanins)) :
            Vec_IntFind(Abc_NtkObj(n, Abc_NtkObj(n, id).vFanins[k]).vFanouts, id) # 0 - 1
    /\ \A k \in 1 .. Abc_ObjFanoutNum(n, id) :
            Vec_IntFind(Abc_NtkObj(n, Abc_NtkObj(n, id).vFanouts[k]).vFanins, id) # 0 - 1

\* Abc_NtkDoCheck: the numbers of the terminals, the connectivity of the
\* objects, the latches (Abc_NtkCheckLatch: the reset value and the
\* terminals around the latch) and the absence of combinational loops
Abc_NtkDoCheck(n) ==
    LET Abc_NtkCheckLatch(id) ==
            /\ Abc_NtkObj(n, id).Type = "LATCH"
            /\ Abc_NtkObj(n, id).pData \in 1 .. 3
            /\ Len(Abc_NtkObj(n, id).vFanins) = 1
            /\ Abc_ObjFanoutNum(n, id) = 1
            /\ Len(Abc_NtkObj(n, Abc_ObjFaninId0(n, id)).vFanins) = 1
            /\ Abc_ObjFanoutNum(n, Abc_ObjFaninId0(n, id)) = 1
            /\ Len(Abc_NtkObj(n, Abc_NtkObj(n, id).vFanouts[1]).vFanins) = 1
    IN /\ Len(n.vPis) + Len(n.vBoxes) = Len(n.vCis)
       /\ Len(n.vPos) + Len(n.vBoxes) = Len(n.vCos)
       /\ \A id \in Abc_NtkObjIds(n) : Abc_NtkCheckObj(n, id)
       /\ \A i \in 1 .. Len(n.vBoxes) : Abc_NtkCheckLatch(n.vBoxes[i])
       /\ Abc_NtkIsAcyclic(n)

\* the levels of the CIs of the source network go to their copies
RECURSIVE Abc_NtkTransferLevels(_, _, _)
Abc_NtkTransferLevels(n, b, i) ==
    IF i > Len(n.vCis) THEN b
    ELSE Abc_NtkTransferLevels(n,
            [b EXCEPT !.ntk.vObjs[Abc_ObjId(b.pCopy[n.vCis[i] + 1]) + 1].Level =
                            Abc_NtkObj(n, n.vCis[i]).Level], i + 1)

\* Abc_NtkStartFrom: the new network with the PIs, then the POs and then
\* the boxes of the source network duplicated in their order; pCopy of the
\* constant and of every object duplicated is set, the levels of the CIs
\* are transferred
Abc_NtkStartFrom(n) ==
    LET RECURSIVE DupObjs(_, _, _)
        DupObjs(b, vObjs, i) ==
            IF i > Len(vObjs) THEN b
            ELSE LET idNew == (Len(b.ntk.vObjs))
                     n1 == Abc_NtkCreateObj(b.ntk, Abc_NtkObj(n, vObjs[i]).Type)
                 IN DupObjs([b EXCEPT !.ntk = n1,
                                      !.pCopy[vObjs[i] + 1] = (2 * idNew)],
                            vObjs, i + 1)
        b0 == [ntk |-> Abc_NtkAlloc,
               pCopy |-> [i \in 1 .. Len(n.vObjs) |-> IF i = 1 THEN Abc_AigConst1 ELSE NULL],
               ok |-> TRUE, res |-> NULL]
        \* Abc_NtkDupBox: the latch with its reset value, then its input and
        \* its output, each connected to the new latch
        RECURSIVE DupBoxes(_, _)
        DupBoxes(b, i) ==
            IF i > Len(n.vBoxes) THEN b
            ELSE LET pBox == n.vBoxes[i]
                     pBoxNew == Len(b.ntk.vObjs)
                     c1 == DupObjs(b, << pBox >>, 1)
                     c2 == [c1 EXCEPT !.ntk.vObjs[pBoxNew + 1].pData =
                                            Abc_NtkObj(n, pBox).pData]
                     c3 == DupObjs(c2, Abc_NtkObj(n, pBox).vFanins, 1)
                     c4 == [c3 EXCEPT !.ntk =
                                Abc_ObjAddFanin(@, pBoxNew, 2 * (pBoxNew + 1))]
                     c5 == DupObjs(c4, Abc_NtkObj(n, pBox).vFanouts, 1)
                     c6 == [c5 EXCEPT !.ntk =
                                Abc_ObjAddFanin(@, pBoxNew + 2, 2 * pBoxNew)]
                 IN DupBoxes(c6, i + 1)
        b1 == DupObjs(b0, n.vPis, 1)
        b2 == DupObjs(b1, n.vPos, 1)
        b3 == Abc_NtkTransferLevels(n, DupBoxes(b2, 1), 1)
    IN [b3 EXCEPT !.ok = /\ Len(b3.ntk.vCis) = Len(n.vCis)
                         /\ Len(b3.ntk.vCos) = Len(n.vCos)
                         /\ Len(b3.ntk.vBoxes) = Len(n.vBoxes)]

\* Abc_NtkBalancePerform: the driver of every CO is balanced in turn
Abc_NtkBalancePerform(n, b, fDuplicate, fSelective, fTie) ==
    LET RECURSIVE Cos(_, _)
        Cos(c, i) ==
            IF i > Len(n.vCos) THEN c
            ELSE Cos(Abc_NodeBalance_rec(n, c, Abc_ObjFaninId0(n, n.vCos[i]),
                                         fDuplicate, fSelective, fTie), i + 1)
    IN Cos(Abc_NtkTransferLevels(n, b, 1), 1)

\* Abc_NtkFinalize: every new CO gets the copy of the driver of the old CO,
\* complemented as the old CO's fanin is
RECURSIVE Abc_NtkFinalize(_, _, _)
Abc_NtkFinalize(n, b, i) ==
    IF i > Len(n.vCos) THEN b
    ELSE LET pObj == n.vCos[i]
             pDriverNew == Abc_ObjNotCond(b.pCopy[Abc_ObjFaninId0(n, pObj) + 1],
                                          (Abc_NtkObj(n, pObj).fCompl0))
         IN Abc_NtkFinalize(n,
                [b EXCEPT !.ntk = Abc_ObjAddFanin(@, Abc_ObjId(b.pCopy[pObj + 1]), pDriverNew)],
                i + 1)

\* the network that stands for the NULL that Abc_NtkBalance returns when
\* the check of the new network fails
Abc_NtkNull == [Abc_NtkAlloc EXCEPT !.vObjs = << >>]

\* Abc_NtkBalance: the new network, or Abc_NtkNull; ok tells whether every
\* assertion on the way held
Abc_NtkBalance(n, fDuplicate, fSelective, fTie) ==
    LET b1 == Abc_NtkStartFrom(n)
        b2 == Abc_NtkBalancePerform(n, b1, fDuplicate, fSelective, fTie)
        b3 == Abc_NtkFinalize(n, b2, 1)
        pNtkAig == Abc_AigCleanup(b3.ntk)
    IN [pNtkAig |-> IF Abc_NtkDoCheck(pNtkAig) THEN pNtkAig ELSE Abc_NtkNull,
        ok |-> b3.ok]

(***************************************************************************)
(* The balance command on a strashed network: the network is built by      *)
(* Abc_AigAnd and Abc_NtkCreateObj over its PIs, then balanced once        *)
(***************************************************************************)
RECURSIVE Abc_NtkCreatePis(_, _)
Abc_NtkCreatePis(n, k) ==
    IF k = 0 THEN n ELSE Abc_NtkCreatePis(Abc_NtkCreateObj(n, "PI"), k - 1)

InitBalance ==
    /\ aig = Aig_ManStart
    /\ \E nPis \in 2 .. MaxBalPis : ntk = Abc_NtkCreatePis(Abc_NtkAlloc, nPis)
    /\ man = [stage |-> "build"]

BalanceAnd ==
    \E p0 \in Abc_NtkEdges(ntk), p1 \in Abc_NtkEdges(ntk) :
        LET r == Abc_AigAnd(ntk, p0, p1) IN
        /\ man.stage = "build"
        /\ Len(ntk.vPos) = 0
        /\ Cardinality(Abc_NtkNodeIds(r.ntk)) <= MaxBalNodes
        \* up to the names of the PIs the first node is over the first two
        /\ Abc_NtkNodeIds(ntk) = {} =>
                { Abc_ObjId(p0), Abc_ObjId(p1) } = { ntk.vPis[1], ntk.vPis[2] }
        /\ ntk' = r.ntk
        /\ UNCHANGED << aig, man >>

BalanceCreatePo ==
    \E pDriver \in Abc_NtkEdges(ntk) :
        /\ man.stage = "build"
        /\ Len(ntk.vPos) < MaxBalPos
        \* the outputs are taken from the nodes that nothing uses yet
        /\ Abc_ObjIsNode(ntk, Abc_ObjId(pDriver))
        /\ Abc_ObjFanoutNum(ntk, Abc_ObjId(pDriver)) = 0
        /\ ntk' = Abc_ObjAddFanin(Abc_NtkCreateObj(ntk, "PO"), Len(ntk.vObjs), pDriver)
        /\ UNCHANGED << aig, man >>

Balance ==
    \E fDuplicate \in 0 .. 1, fSelective \in 0 .. 1, fTie \in 0 .. 1 :
        LET r == Abc_NtkBalance(ntk, fDuplicate, fSelective, fTie) IN
        /\ man.stage = "build"
        /\ Len(ntk.vPos) > 0
        /\ man' = [stage |-> "balanced", pNtkAig |-> r.pNtkAig, ok |-> r.ok,
                   fDuplicate |-> fDuplicate]
        /\ UNCHANGED << aig, ntk >>

NextBalance == BalanceAnd \/ BalanceCreatePo \/ Balance

SpecBalance == InitBalance /\ [][NextBalance]_vars

\* the function of the i-th CO over the PIs taken by their position
Abc_NtkCoTruth(n, i) ==
    { a \in [1 .. Len(n.vPis) -> BOOLEAN] :
        Abc_ObjValue(n, n.vPos[i],
                     [id \in 0 .. Len(n.vObjs) - 1 |->
                        \E k \in 1 .. Len(n.vPis) : n.vPis[k] = id /\ a[k]]) }

\* C3: the network that balancing returns, with or without the duplication
\* flag, has the PIs and POs of the source network, and each of its
\* outputs computes the same function of the inputs as the same output of
\* the source network; no assertion fails on the way and the new network
\* passes its check
C3_BalancePreserves ==
    man.stage = "balanced" =>
        /\ man.ok
        /\ man.pNtkAig # Abc_NtkNull
        /\ Len(man.pNtkAig.vPis) = Len(ntk.vPis)
        /\ Len(man.pNtkAig.vPos) = Len(ntk.vPos)
        /\ \A i \in 1 .. Len(ntk.vPos) :
                Abc_NtkCoTruth(man.pNtkAig, i) = Abc_NtkCoTruth(ntk, i)

\* a supergate that holds an edge in both polarities: the old output is
\* driven by a node, the new one by the constant
C3_Witness ==
    /\ man.stage = "balanced"
    /\ man.fDuplicate = 1
    /\ \E i \in 1 .. Len(ntk.vPos) :
        /\ Abc_ObjIsNode(ntk, Abc_ObjFaninId0(ntk, ntk.vPos[i]))
        /\ Abc_NtkObj(man.pNtkAig,
                      Abc_ObjFaninId0(man.pNtkAig, man.pNtkAig.vPos[i])).Type = "CONST1"

(***************************************************************************)
(* The passes that resynthesize the nodes of a network in place            *)
(* (abcRefactor.c, abcResub.c): for every node a reconvergence-driven cut  *)
(* (abcReconv.c), a graph for the function of the node over the cut, the   *)
(* count of the nodes the graph adds (decAbc.c) and, when the graph is     *)
(* accepted, Dec_GraphUpdateNetwork.                                       *)
(***************************************************************************)
\* the largest number of AND gates of a factored form
MaxGraphNodes == 2
MaxPassPis == 2
\* largest size in bytes of a file that is read
MaxFileSize == 18

\* the loop of Abc_NodeFindCut over Abc_NodeBuildCutLevelOne_int, with
\* Abc_NodeGetLeafCostOne, on s = [vLeaves, vVisited, fMarkB, ok]: fMarkB is
\* the set of the marked objects.  The cost of a leaf that is neither a CI
\* nor has fanins is read through its empty fanin array: ok = FALSE
Abc_NodeBuildCut(n, s0, nSizeLimit, nFaninLimit) ==
    LET Cost(fMarkB, pNode) ==
            LET c == (IF Abc_ObjFaninId0(n, pNode) \in fMarkB THEN 0 ELSE 1)
                     + (IF Abc_ObjFaninId1(n, pNode) \in fMarkB THEN 0 ELSE 1)
            IN IF Abc_NtkObj(n, pNode).Type \in {"PI", "BO"} THEN 999
               ELSE IF c < 2 THEN c
               ELSE IF Abc_ObjFanoutNum(n, pNode) > nFaninLimit THEN 999
               ELSE c
        RECURSIVE Best(_, _, _, _)
        Best(fMarkB, vLeaves, i, b) ==
            IF i > Len(vLeaves) \/ b.CostBest = 0 THEN b
            ELSE LET pNode == vLeaves[i] IN
                 IF Abc_NtkObj(n, pNode).Type \notin {"PI", "BO"} /\ Len(Abc_NtkObj(n, pNode).vFanins) < 2
                 THEN [b EXCEPT !.ok = FALSE]
                 ELSE LET CostCur == Cost(fMarkB, pNode) IN
                      IF \/ b.CostBest > CostCur
                         \/ /\ b.CostBest = CostCur
                            /\ Abc_NtkObj(n, pNode).Level > Abc_NtkObj(n, b.pFaninBest).Level
                      THEN Best(fMarkB, vLeaves, i + 1,
                                [b EXCEPT !.CostBest = CostCur, !.pFaninBest = pNode])
                      ELSE Best(fMarkB, vLeaves, i + 1, b)
        RECURSIVE Build(_)
        Build(s) ==
            LET b  == Best(s.fMarkB, s.vLeaves, 1,
                           [CostBest |-> 100, pFaninBest |-> NULL, ok |-> TRUE])
                f0 == Abc_ObjFaninId0(n, b.pFaninBest)
                f1 == Abc_ObjFaninId1(n, b.pFaninBest)
                v1 == Vec_IntRemove(s.vLeaves, b.pFaninBest)
                v2 == IF f0 \in s.fMarkB THEN v1 ELSE Append(v1, f0)
                v3 == IF f1 \in s.fMarkB \cup {f0} THEN v2 ELSE Append(v2, f1)
            IN IF ~b.ok THEN [s EXCEPT !.ok = FALSE]
               ELSE IF b.pFaninBest = NULL THEN s
               ELSE IF Len(s.vLeaves) - 1 + b.CostBest > nSizeLimit THEN s
               ELSE Build([s EXCEPT !.vLeaves = v3, !.fMarkB = @ \cup {f0, f1},
                                    !.vVisited = @ \o SubSeq(v3, Len(v1) + 1, Len(v3))])
    IN Build(s0)

\* Abc_NodeFindCut up to the end of the loop for the cut of the node: the
\* root and its fanins are visited and marked, the fanins are the leaves
Abc_NodeFindCut(n, pRoot, nSizeLimit, nFaninLimit) ==
    LET pFanin0 == Abc_ObjFaninId0(n, pRoot)
        pFanin1 == Abc_ObjFaninId1(n, pRoot)
    IN Abc_NodeBuildCut(n, [vLeaves |-> << pFanin0, pFanin1 >>,
                            vVisited |-> << pRoot, pFanin0, pFanin1 >>,
                            fMarkB |-> {pRoot, pFanin0, pFanin1}, ok |-> TRUE],
                        nSizeLimit, nFaninLimit)

\* Abc_NodeConeTruth with Abc_NodeConeCollect: the function of the root over
\* the leaves, variable i being the leaf at position i (from 0); the info
\* is kept as in the resubstitution manager.  An object that is collected
\* and has no fanins has them read all the same: ok = FALSE
Abc_NodeConeTruth(n, pRoot, vLeaves) ==
    LET IsLeaf(pNode) == \E i \in 1 .. Len(vLeaves) : vLeaves[i] = pNode
        \* pCopy of a leaf is the variable of its last position in vLeaves
        Var(pNode) == (CHOOSE i \in 1 .. Len(vLeaves) :
                          /\ vLeaves[i] = pNode
                          /\ \A j \in i + 1 .. Len(vLeaves) : vLeaves[j] # pNode) - 1
        RECURSIVE Collect(_)
        Collect(pNode) ==
            IF IsLeaf(pNode) THEN {}
            ELSE IF Abc_ObjIsNode(n, pNode)
            THEN Collect(Abc_ObjFaninId0(n, pNode)) \cup Collect(Abc_ObjFaninId1(n, pNode))
                    \cup {pNode}
            ELSE {pNode}
        RECURSIVE Truth(_)
        Truth(pNode) ==
            IF IsLeaf(pNode)
            THEN { b \in Abc_ManResubPatterns : (b \div (2 ^ Var(pNode))) % 2 = 1 }
            ELSE Abc_InfoNotCond(Truth(Abc_ObjFaninId0(n, pNode)), Abc_NtkObj(n, pNode).fCompl0)
                 \cap Abc_InfoNotCond(Truth(Abc_ObjFaninId1(n, pNode)),
                                      Abc_NtkObj(n, pNode).fCompl1)
        ok == \A pNode \in Collect(pRoot) : Abc_ObjIsNode(n, pNode)
    IN [pTruth |-> IF ok THEN Truth(pRoot) ELSE {}, ok |-> ok]

\* Kit_TruthToGraph: the graphs that the factoring of the irredundant cover
\* of the function can return, taken as every graph of at most
\* MaxGraphNodes gates that has the function and in which every gate after
\* the first has the gate before it as its second fanin; the root is the
\* last gate, leaf i stands for variable i
Kit_TruthToGraph(pTruth, nVars) ==
    LET Edges(k) == { Dec_EdgeCreate(j, c) : j \in 0 .. k - 1, c \in 0 .. 1 }
        g0 == [Dec_GraphCreate(nVars) EXCEPT
                    !.pNodes = [i \in 1 .. nVars |->
                                    [Dec_NodeZero EXCEPT !.pFunc = 2 * i]] \o << >>]
        RECURSIVE Graphs(_)
        Graphs(k) ==
            IF k = 0 THEN {g0}
            ELSE { Dec_GraphAddNodeAnd(g, e[1], e[2]).g :
                     g \in Graphs(k - 1),
                     e \in { x \in Edges(nVars + k - 1) \X Edges(nVars + k - 1) :
                                /\ x[1].Node < x[2].Node
                                /\ k > 1 => x[2].Node = nVars + k - 2 } }
        vInfo == [i \in 1 .. nVars |->
                    { b \in Abc_ManResubPatterns : (b \div (2 ^ (i - 1))) % 2 = 1 }]
        all == { [g EXCEPT !.eRoot = e] : g \in Graphs(0), e \in Edges(nVars) }
               \cup { [g EXCEPT !.eRoot = Dec_EdgeCreate(Len(g.pNodes) - 1, c)] :
                        g \in UNION { Graphs(k) : k \in 1 .. MaxGraphNodes }, c \in 0 .. 1 }
    IN { g \in all : Dec_GraphToInfo(vInfo, g) = pTruth }

\* the count without the test for the root
Dec_GraphToNetworkCountAnyRoot(n, pRoot, pGraph, NodeMax) ==
    LET RECURSIVE Count(_, _, _)
        Count(i, vFunc, Counter) ==
            IF i > Len(pGraph.pNodes) THEN Counter
            ELSE LET pNode == pGraph.pNodes[i]
                     pAnd0 == vFunc[pNode.eEdge0.Node + 1]
                     pAnd1 == vFunc[pNode.eEdge1.Node + 1]
                     pAnd  == IF pAnd0 # NULL /\ pAnd1 # NULL
                              THEN Abc_AigAndLookup(n, Abc_ObjNotCond(pAnd0, pNode.eEdge0.fCompl),
                                                    Abc_ObjNotCond(pAnd1, pNode.eEdge1.fCompl))
                              ELSE NULL
                     fAdd  == pAnd = NULL \/ Abc_NodeIsTravIdCurrent(n, Abc_ObjId(pAnd))
                 IN IF fAdd /\ Counter + 1 > NodeMax THEN 0 - 1
                    ELSE Count(i + 1, Append(vFunc, pAnd), IF fAdd THEN Counter + 1 ELSE Counter)
    IN IF pGraph.fConst = 1 \/ pGraph.eRoot.Node < pGraph.nLeaves THEN 0
       ELSE Count(pGraph.nLeaves + 1, [i \in 1 .. pGraph.nLeaves |-> pGraph.pNodes[i].pFunc], 0)

\* the count that adds one only for a gate that is not in the network
Dec_GraphToNetworkCountNoMffc(n, pRoot, pGraph, NodeMax) ==
    LET RECURSIVE Count(_, _, _)
        Count(i, vFunc, Counter) ==
            IF i > Len(pGraph.pNodes) THEN Counter
            ELSE LET pNode == pGraph.pNodes[i]
                     pAnd0 == vFunc[pNode.eEdge0.Node + 1]
                     pAnd1 == vFunc[pNode.eEdge1.Node + 1]
                     pAnd  == IF pAnd0 # NULL /\ pAnd1 # NULL
                              THEN Abc_AigAndLookup(n, Abc_ObjNotCond(pAnd0, pNode.eEdge0.fCompl),
                                                    Abc_ObjNotCond(pAnd1, pNode.eEdge1.fCompl))
                              ELSE NULL
                     fAdd  == pAnd = NULL
                 IN IF pAnd # NULL /\ Abc_ObjRegular(pAnd) = 2 * pRoot THEN 0 - 1
                    ELSE IF fAdd /\ Counter + 1 > NodeMax THEN 0 - 1
                    ELSE Count(i + 1, Append(vFunc, pAnd), IF fAdd THEN Counter + 1 ELSE Counter)
    IN IF pGraph.fConst = 1 \/ pGraph.eRoot.Node < pGraph.nLeaves THEN 0
       ELSE Count(pGraph.nLeaves + 1, [i \in 1 .. pGraph.nLeaves |-> pGraph.pNodes[i].pFunc], 0)

\* Dec_GraphToNetworkCount: the number of the gates of the graph that are
\* not in the network or are labeled with the current traversal Id, -1 when
\* a gate is the root itself or the number exceeds NodeMax.  The levels
\* that the procedure computes on the way are not returned.
Dec_GraphToNetworkCount(n, pRoot, pGraph, NodeMax) ==
    LET RECURSIVE Count(_, _, _)
        Count(i, vFunc, Counter) ==
            IF i > Len(pGraph.pNodes) THEN Counter
            ELSE LET pNode == pGraph.pNodes[i]
                     pAnd0 == vFunc[pNode.eEdge0.Node + 1]
                     pAnd1 == vFunc[pNode.eEdge1.Node + 1]
                     pAnd  == IF pAnd0 # NULL /\ pAnd1 # NULL
                              THEN Abc_AigAndLookup(n, Abc_ObjNotCond(pAnd0, pNode.eEdge0.fCompl),
                                                    Abc_ObjNotCond(pAnd1, pNode.eEdge1.fCompl))
                              ELSE NULL
                     fAdd  == pAnd = NULL \/ Abc_NodeIsTravIdCurrent(n, Abc_ObjId(pAnd))
                 IN IF pAnd # NULL /\ Abc_ObjRegular(pAnd) = 2 * pRoot THEN 0 - 1
                    ELSE IF fAdd /\ Counter + 1 > NodeMax THEN 0 - 1
                    ELSE Count(i + 1, Append(vFunc, pAnd), IF fAdd THEN Counter + 1 ELSE Counter)
    IN IF pGraph.fConst = 1 \/ pGraph.eRoot.Node < pGraph.nLeaves THEN 0
       ELSE Count(pGraph.nLeaves + 1, [i \in 1 .. pGraph.nLeaves |-> pGraph.pNodes[i].pFunc], 0)

\* the edge to the last gate without the complement of the root
Dec_GraphToNetworkNoCompl(n, pGraph) ==
    LET RECURSIVE Build(_, _, _)
        Build(m, i, vFunc) ==
            IF i > Len(pGraph.pNodes)
            THEN [ntk |-> m, res |-> vFunc[Len(vFunc)]]
            ELSE LET pNode == pGraph.pNodes[i]
                     r == Abc_AigAnd(m,
                            Abc_ObjNotCond(vFunc[pNode.eEdge0.Node + 1], pNode.eEdge0.fCompl),
                            Abc_ObjNotCond(vFunc[pNode.eEdge1.Node + 1], pNode.eEdge1.fCompl))
                 IN Build(r.ntk, i + 1, Append(vFunc, r.res))
    IN IF pGraph.fConst = 1
       THEN [ntk |-> n, res |-> Abc_ObjNotCond(Abc_AigConst1, pGraph.eRoot.fCompl)]
       ELSE IF pGraph.eRoot.Node < pGraph.nLeaves
       THEN [ntk |-> n, res |-> Abc_ObjNotCond(pGraph.pNodes[pGraph.eRoot.Node + 1].pFunc,
                                               pGraph.eRoot.fCompl)]
       ELSE Build(n, pGraph.nLeaves + 1,
                  [i \in 1 .. pGraph.nLeaves |-> pGraph.pNodes[i].pFunc])

\* Dec_GraphToNetwork: the gates of the graph are built with Abc_AigAnd; the
\* result is the edge to the last gate, to the leaf or to the constant
Dec_GraphToNetwork(n, pGraph) ==
    LET RECURSIVE Build(_, _, _)
        Build(m, i, vFunc) ==
            IF i > Len(pGraph.pNodes)
            THEN [ntk |-> m, res |-> Abc_ObjNotCond(vFunc[Len(vFunc)], pGraph.eRoot.fCompl)]
            ELSE LET pNode == pGraph.pNodes[i]
                     r == Abc_AigAnd(m,
                            Abc_ObjNotCond(vFunc[pNode.eEdge0.Node + 1], pNode.eEdge0.fCompl),
                            Abc_ObjNotCond(vFunc[pNode.eEdge1.Node + 1], pNode.eEdge1.fCompl))
                 IN Build(r.ntk, i + 1, Append(vFunc, r.res))
    IN IF pGraph.fConst = 1
       THEN [ntk |-> n, res |-> Abc_ObjNotCond(Abc_AigConst1, pGraph.eRoot.fCompl)]
       ELSE IF pGraph.eRoot.Node < pGraph.nLeaves
       THEN [ntk |-> n, res |-> Abc_ObjNotCond(pGraph.pNodes[pGraph.eRoot.Node + 1].pFunc,
                                               pGraph.eRoot.fCompl)]
       ELSE Build(n, pGraph.nLeaves + 1,
                  [i \in 1 .. pGraph.nLeaves |-> pGraph.pNodes[i].pFunc])

\* Dec_GraphUpdateNetwork: the graph is built and replaces the root
Dec_GraphUpdateNetwork(n, pRoot, pGraph) ==
    LET r == Dec_GraphToNetwork(n, pGraph) IN Abc_AigReplace(r.ntk, pRoot, r.res)

\* the evaluation that accepts a form of gain 0 without the zero-cost flag
Abc_NodeRefactorAnyGain(n, pNode, vFanins, fUseZeros, pFForm) ==
    LET t  == Abc_NodeConeTruth(n, pNode, vFanins)
        IsLeaf(id) == \E k \in 1 .. Len(vFanins) : vFanins[k] = id
        \* vFanouts.nSize++ and vFanouts.nSize-- on every leaf
        Mark(m) == [m EXCEPT !.vObjs = [j \in 1 .. Len(m.vObjs) |->
                        IF IsLeaf(j - 1)
                        THEN [m.vObjs[j] EXCEPT !.vFanouts = Append(@, NULL)]
                        ELSE m.vObjs[j]] \o << >>]
        Unmark(m) == [m EXCEPT !.vObjs = [j \in 1 .. Len(m.vObjs) |->
                        IF IsLeaf(j - 1)
                        THEN [m.vObjs[j] EXCEPT !.vFanouts = SubSeq(@, 1, Len(@) - 1)]
                        ELSE m.vObjs[j]] \o << >>]
        l  == Abc_NodeMffcLabelAig(Abc_NtkIncrementTravId(Mark(n)), pNode)
        n1 == Unmark(l.ntk)
        g  == [pFForm EXCEPT !.pNodes = [i \in 1 .. Len(pFForm.pNodes) |->
                    IF i <= Len(vFanins) THEN [pFForm.pNodes[i] EXCEPT !.pFunc = 2 * vFanins[i]]
                    ELSE pFForm.pNodes[i]]]
        nNodesSaved == l.ret
        nNodesAdded == Dec_GraphToNetworkCount(n1, pNode, g, nNodesSaved)
    IN IF ~t.ok THEN [ntk |-> n, pFForm |-> Dec_GraphNull, ok |-> FALSE]
       ELSE IF t.pTruth = {} THEN [ntk |-> n, pFForm |-> Dec_GraphCreateConst0, ok |-> TRUE]
       ELSE IF t.pTruth = Abc_ManResubPatterns
            THEN [ntk |-> n, pFForm |-> Dec_GraphCreateConst1, ok |-> TRUE]
       ELSE IF ~l.ok THEN [ntk |-> n, pFForm |-> Dec_GraphNull, ok |-> FALSE]
       ELSE IF nNodesAdded = 0 - 1
            THEN [ntk |-> n1, pFForm |-> Dec_GraphNull, ok |-> TRUE]
       ELSE [ntk |-> n1, pFForm |-> g, ok |-> TRUE]

\* the evaluation that decrements the fanout counters of the leaves only
Abc_NodeRefactorNoMark(n, pNode, vFanins, fUseZeros, pFForm) ==
    LET t  == Abc_NodeConeTruth(n, pNode, vFanins)
        IsLeaf(id) == \E k \in 1 .. Len(vFanins) : vFanins[k] = id
        \* vFanouts.nSize-- on every leaf without the vFanouts.nSize++ before it
        Mark(m) == m
        Unmark(m) == [m EXCEPT !.vObjs = [j \in 1 .. Len(m.vObjs) |->
                        IF IsLeaf(j - 1)
                        THEN [m.vObjs[j] EXCEPT !.vFanouts = SubSeq(@, 1, Len(@) - 1)]
                        ELSE m.vObjs[j]] \o << >>]
        l  == Abc_NodeMffcLabelAig(Abc_NtkIncrementTravId(Mark(n)), pNode)
        n1 == Unmark(l.ntk)
        g  == [pFForm EXCEPT !.pNodes = [i \in 1 .. Len(pFForm.pNodes) |->
                    IF i <= Len(vFanins) THEN [pFForm.pNodes[i] EXCEPT !.pFunc = 2 * vFanins[i]]
                    ELSE pFForm.pNodes[i]]]
        nNodesSaved == l.ret
        nNodesAdded == Dec_GraphToNetworkCount(n1, pNode, g, nNodesSaved)
    IN IF ~t.ok THEN [ntk |-> n, pFForm |-> Dec_GraphNull, ok |-> FALSE]
       ELSE IF t.pTruth = {} THEN [ntk |-> n, pFForm |-> Dec_GraphCreateConst0, ok |-> TRUE]
       ELSE IF t.pTruth = Abc_ManResubPatterns
            THEN [ntk |-> n, pFForm |-> Dec_GraphCreateConst1, ok |-> TRUE]
       ELSE IF ~l.ok THEN [ntk |-> n, pFForm |-> Dec_GraphNull, ok |-> FALSE]
       ELSE IF nNodesAdded = 0 - 1 \/ (nNodesAdded = nNodesSaved /\ fUseZeros = 0)
            THEN [ntk |-> n1, pFForm |-> Dec_GraphNull, ok |-> TRUE]
       ELSE [ntk |-> n1, pFForm |-> g, ok |-> TRUE]

\* Abc_NodeRefactor for the factored form pFForm that Kit_TruthToGraph
\* returned (not used when the function is a constant).  The fanout counters
\* of the leaves are incremented around the labeling of the MFFC.  Returns
\* the network, the accepted graph or Dec_GraphNull, and ok = FALSE when an
\* empty fanin array was read.
Abc_NodeRefactor(n, pNode, vFanins, fUseZeros, pFForm) ==
    LET t  == Abc_NodeConeTruth(n, pNode, vFanins)
        IsLeaf(id) == \E k \in 1 .. Len(vFanins) : vFanins[k] = id
        \* vFanouts.nSize++ and vFanouts.nSize-- on every leaf
        Mark(m) == [m EXCEPT !.vObjs = [j \in 1 .. Len(m.vObjs) |->
                        IF IsLeaf(j - 1)
                        THEN [m.vObjs[j] EXCEPT !.vFanouts = Append(@, NULL)]
                        ELSE m.vObjs[j]] \o << >>]
        Unmark(m) == [m EXCEPT !.vObjs = [j \in 1 .. Len(m.vObjs) |->
                        IF IsLeaf(j - 1)
                        THEN [m.vObjs[j] EXCEPT !.vFanouts = SubSeq(@, 1, Len(@) - 1)]
                        ELSE m.vObjs[j]] \o << >>]
        l  == Abc_NodeMffcLabelAig(Abc_NtkIncrementTravId(Mark(n)), pNode)
        n1 == Unmark(l.ntk)
        g  == [pFForm EXCEPT !.pNodes = [i \in 1 .. Len(pFForm.pNodes) |->
                    IF i <= Len(vFanins) THEN [pFForm.pNodes[i] EXCEPT !.pFunc = 2 * vFanins[i]]
                    ELSE pFForm.pNodes[i]]]
        nNodesSaved == l.ret
        nNodesAdded == Dec_GraphToNetworkCount(n1, pNode, g, nNodesSaved)
    IN IF ~t.ok THEN [ntk |-> n, pFForm |-> Dec_GraphNull, ok |-> FALSE]
       ELSE IF t.pTruth = {} THEN [ntk |-> n, pFForm |-> Dec_GraphCreateConst0, ok |-> TRUE]
       ELSE IF t.pTruth = Abc_ManResubPatterns
            THEN [ntk |-> n, pFForm |-> Dec_GraphCreateConst1, ok |-> TRUE]
       ELSE IF ~l.ok THEN [ntk |-> n, pFForm |-> Dec_GraphNull, ok |-> FALSE]
       ELSE IF nNodesAdded = 0 - 1 \/ (nNodesAdded = nNodesSaved /\ fUseZeros = 0)
            THEN [ntk |-> n1, pFForm |-> Dec_GraphNull, ok |-> TRUE]
       ELSE [ntk |-> n1, pFForm |-> g, ok |-> TRUE]

\* Abc_NtkLevel: the levels of the CIs are cleared, the level of a node is
\* one more than the largest level of its fanins; the objects visited get
\* the incremented traversal Id
Abc_NtkLevel(n) ==
    LET n1 == Abc_NtkIncrementTravId(n)
        RECURSIVE Level_rec(_)
        Level_rec(pNode) ==
            LET o == Abc_NtkObj(n1, pNode)
                L == { Level_rec(o.vFanins[k]) : k \in 1 .. Len(o.vFanins) }
            IN IF o.Type \in {"PI", "BO"} \/ L = {} THEN 0
               ELSE 1 + (CHOOSE x \in L : \A y \in L : y <= x)
        vVisited == Abc_NtkNodeIds(n1) \cup
                    { f \in Abc_NtkTfi(n1, Abc_NtkNodeIds(n1)) : Abc_NtkObj(n1, f).Type \notin {"PI", "BO"} }
    IN [n1 EXCEPT !.vObjs = [i \in 1 .. Len(n1.vObjs) |->
                                IF n1.vObjs[i].Type \in {"PI", "BO"} \/ (i - 1) \in vVisited
                                THEN [n1.vObjs[i] EXCEPT !.Level = Level_rec(i - 1)]
                                ELSE n1.vObjs[i]] \o << >>,
                  !.vTravIds = [i \in 1 .. Len(n1.vTravIds) |->
                                IF (i - 1) \in vVisited THEN n1.nTravIds ELSE n1.vTravIds[i]]
                               \o << >>]


\* the computation without the increment of the fanout counters of the leaves
Abc_NodeMffcInsideNoLeaves(n, pNode, vLeaves) ==
    LET IsLeaf(id) == \E k \in 1 .. Len(vLeaves) : vLeaves[k] = id
        sz0 == [j \in 1 .. Len(n.vObjs) |-> Len(n.vObjs[j].vFanouts)]
        RECURSIVE RefDeref_rec(_, _, _)
        RECURSIVE RefDerefFanins(_, _, _)
        RefDeref_rec(st, id, fRef) ==
            IF Abc_NtkObj(n, id).Type \in {"PI", "BO"} THEN st
            ELSE RefDerefFanins([st EXCEPT !.cnt = @ + 1], Abc_NtkObj(n, id).vFanins, fRef)
        RefDerefFanins(sf, v, fRef) ==
            IF v = << >> THEN sf
            ELSE LET f   == Head(v)
                     sf1 == IF fRef THEN [sf EXCEPT !.sz[f + 1] = @ + 1]
                            ELSE [sf EXCEPT !.sz[f + 1] = @ - 1, !.ok = @ /\ sf.sz[f + 1] > 0]
                     fRec == IF fRef THEN sf.sz[f + 1] = 0 ELSE sf1.sz[f + 1] = 0
                 IN RefDerefFanins(IF fRec THEN RefDeref_rec(sf1, f, fRef) ELSE sf1,
                                   Tail(v), fRef)
        d   == RefDeref_rec([sz |-> sz0, cnt |-> 0, ok |-> TRUE], pNode, FALSE)
        r   == RefDeref_rec([sz |-> d.sz, cnt |-> 0, ok |-> TRUE], pNode, TRUE)
        n1  == Abc_NtkIncrementTravId(n)
        cur == n1.nTravIds
        RECURSIVE ConeSupp_rec(_, _, _)
        RECURSIVE ConeSuppFanins(_, _)
        ConeSupp_rec(ct, id, fTopmost) ==
            IF ct.trav[id + 1] = cur THEN ct
            ELSE LET c1 == [ct EXCEPT !.trav[id + 1] = cur] IN
                 IF ~fTopmost /\ (Abc_NtkObj(n1, id).Type \in {"PI", "BO"} \/ d.sz[id + 1] > 0) THEN c1
                 ELSE [ConeSuppFanins(c1, Abc_NtkObj(n1, id).vFanins)
                            EXCEPT !.vCone = Append(@, id)]
        ConeSuppFanins(cf, w) ==
            IF w = << >> THEN cf
            ELSE ConeSuppFanins(ConeSupp_rec(cf, Head(w), FALSE), Tail(w))
        cone == ConeSupp_rec([trav |-> n1.vTravIds, vCone |-> << >>], pNode, TRUE)
    IN [ntk |-> [n1 EXCEPT !.vTravIds = cone.trav], vInside |-> cone.vCone,
        ret |-> d.cnt, ok |-> d.ok /\ d.cnt = r.cnt /\ r.sz = sz0]

\* Abc_NodeMffcInside with Abc_NodeDeref_rec, Abc_NodeMffcConeSupp and
\* Abc_NodeRef_rec: the nodes of the MFFC of the node above the leaves, in
\* the order they are collected, and their number.  The fanout counters
\* are kept in sz, those of the leaves incremented; they are restored on
\* return.  The objects visited get the incremented traversal Id.
Abc_NodeMffcInside(n, pNode, vLeaves) ==
    LET IsLeaf(id) == \E k \in 1 .. Len(vLeaves) : vLeaves[k] = id
        sz0 == [j \in 1 .. Len(n.vObjs) |->
                    Len(n.vObjs[j].vFanouts) + (IF IsLeaf(j - 1) THEN 1 ELSE 0)]
        RECURSIVE RefDeref_rec(_, _, _)
        RECURSIVE RefDerefFanins(_, _, _)
        RefDeref_rec(st, id, fRef) ==
            IF Abc_NtkObj(n, id).Type \in {"PI", "BO"} THEN st
            ELSE RefDerefFanins([st EXCEPT !.cnt = @ + 1], Abc_NtkObj(n, id).vFanins, fRef)
        RefDerefFanins(sf, v, fRef) ==
            IF v = << >> THEN sf
            ELSE LET f   == Head(v)
                     sf1 == IF fRef THEN [sf EXCEPT !.sz[f + 1] = @ + 1]
                            ELSE [sf EXCEPT !.sz[f + 1] = @ - 1, !.ok = @ /\ sf.sz[f + 1] > 0]
                     fRec == IF fRef THEN sf.sz[f + 1] = 0 ELSE sf1.sz[f + 1] = 0
                 IN RefDerefFanins(IF fRec THEN RefDeref_rec(sf1, f, fRef) ELSE sf1,
                                   Tail(v), fRef)
        d   == RefDeref_rec([sz |-> sz0, cnt |-> 0, ok |-> TRUE], pNode, FALSE)
        r   == RefDeref_rec([sz |-> d.sz, cnt |-> 0, ok |-> TRUE], pNode, TRUE)
        n1  == Abc_NtkIncrementTravId(n)
        cur == n1.nTravIds
        RECURSIVE ConeSupp_rec(_, _, _)
        RECURSIVE ConeSuppFanins(_, _)
        ConeSupp_rec(ct, id, fTopmost) ==
            IF ct.trav[id + 1] = cur THEN ct
            ELSE LET c1 == [ct EXCEPT !.trav[id + 1] = cur] IN
                 IF ~fTopmost /\ (Abc_NtkObj(n1, id).Type \in {"PI", "BO"} \/ d.sz[id + 1] > 0) THEN c1
                 ELSE [ConeSuppFanins(c1, Abc_NtkObj(n1, id).vFanins)
                            EXCEPT !.vCone = Append(@, id)]
        ConeSuppFanins(cf, w) ==
            IF w = << >> THEN cf
            ELSE ConeSuppFanins(ConeSupp_rec(cf, Head(w), FALSE), Tail(w))
        cone == ConeSupp_rec([trav |-> n1.vTravIds, vCone |-> << >>], pNode, TRUE)
    IN [ntk |-> [n1 EXCEPT !.vTravIds = cone.trav], vInside |-> cone.vCone,
        ret |-> d.cnt, ok |-> d.ok /\ d.cnt = r.cnt /\ r.sz = sz0]

\* Abc_ManResubCollectDivs with Abc_ManResubCollectDivs_rec: vDivs holds
\* the leaves, the nodes of the cone of the root that are not in its MFFC
\* vTemp, the fanouts of the entries whose two fanins both carry the
\* traversal Id and are not the root, up to Limit of them, and after these
\* nDivs entries the nodes of the MFFC.  nLeavesMax is p->nLeavesMax and
\* ABC_RS_DIV1_MAX the size of p->vSims.
Abc_ManResubCollectDivs(n, pRoot, vLeaves, vTemp) ==
    LET n1  == Abc_NtkIncrementTravId(n)
        cur == n1.nTravIds
        IsLeaf(id) == \E k \in 1 .. Len(vLeaves) : vLeaves[k] = id
        fMarkA(id) == \E k \in 1 .. Len(vTemp) : vTemp[k] = id
        RECURSIVE Divs_rec(_, _)
        Divs_rec(st, id) ==
            IF st.trav[id + 1] = cur THEN st
            ELSE IF Len(Abc_NtkObj(n1, id).vFanins) < 2 THEN [st EXCEPT !.ok = FALSE]
            ELSE LET s1 == [st EXCEPT !.trav[id + 1] = cur]
                     s2 == Divs_rec(s1, Abc_ObjFaninId0(n1, id))
                     s3 == Divs_rec(s2, Abc_ObjFaninId1(n1, id))
                 IN IF fMarkA(id) THEN s3 ELSE [s3 EXCEPT !.vDivs = Append(@, id)]
        c == Divs_rec([trav |-> [j \in 1 .. Len(n1.vTravIds) |->
                                    IF IsLeaf(j - 1) THEN cur ELSE n1.vTravIds[j]] \o << >>,
                       vDivs |-> vLeaves, Counter |-> 0, ok |-> TRUE], pRoot)
        nUsed == Len(c.vDivs) - Len(vLeaves) + Len(vTemp)
        Limit == ABC_RS_DIV1_MAX - nLeavesMax - nUsed
        RECURSIVE Fanouts(_, _, _)
        Fanouts(sd, i, k) ==
            IF i > Len(sd.vDivs) THEN sd
            ELSE LET vFanouts == Abc_NtkObj(n1, sd.vDivs[i]).vFanouts IN
                 IF Len(vFanouts) > 100 \/ k > Len(vFanouts) THEN Fanouts(sd, i + 1, 1)
                 ELSE LET pFanout == vFanouts[k] IN
                      IF sd.trav[pFanout + 1] = cur \/ Abc_NtkObj(n1, pFanout).Type = "PO"
                      THEN Fanouts(sd, i, k + 1)
                      ELSE IF /\ sd.trav[Abc_ObjFaninId0(n1, pFanout) + 1] = cur
                              /\ sd.trav[Abc_ObjFaninId1(n1, pFanout) + 1] = cur
                              /\ Abc_ObjFaninId0(n1, pFanout) # pRoot
                              /\ Abc_ObjFaninId1(n1, pFanout) # pRoot
                      THEN LET sd1 == [sd EXCEPT !.vDivs = Append(@, pFanout),
                                                 !.trav[pFanout + 1] = cur,
                                                 !.Counter = @ + 1]
                           IN IF sd1.Counter = Limit THEN sd1 ELSE Fanouts(sd1, i, k + 1)
                      ELSE Fanouts(sd, i, k + 1)
        f == Fanouts(c, 1, 1)
    IN IF ~c.ok \/ nUsed >= ABC_RS_DIV1_MAX - nLeavesMax
       THEN [ntk |-> [n1 EXCEPT !.vTravIds = c.trav], vDivs |-> c.vDivs,
             nDivs |-> Len(c.vDivs), ret |-> 0, ok |-> c.ok]
       ELSE [ntk |-> [n1 EXCEPT !.vTravIds = f.trav], vDivs |-> f.vDivs \o vTemp,
             nDivs |-> Len(f.vDivs), ret |-> 1,
             ok |-> Len(vTemp) > 0 /\ vTemp[Len(vTemp)] = pRoot]
(***************************************************************************)
(* The refactor and resub commands on a strashed network: Abc_NtkRefactor  *)
(* and Abc_NtkResubstitute up to the loop, one turn of the loop, and the   *)
(* part after the loop, which is the same in both.  man.pNtkOld            *)
(* keeps the network the command was given, man.i is the Id the loop       *)
(* continues from, man.fSelf tells whether a root was replaced by an edge  *)
(* that has the root in its transitive fanin.  The stage is "crash" when   *)
(* the fanins of an object that has none were read.                        *)
(***************************************************************************)
Refactor ==
    \E nNodeSizeMax \in 2 .. MaxPassPis, fUseZeros \in 0 .. 1 :
        /\ man.stage = "build"
        /\ Len(ntk.vPos) > 0
        /\ ntk' = Abc_AigCleanup(ntk)
        /\ man' = [stage |-> "pass", cmd |-> "refactor", pNtkOld |-> ntk,
                   nNodeSizeMax |-> nNodeSizeMax, fUseZeros |-> fUseZeros,
                   i |-> 0, nNodes |-> Len(ntk.vObjs), nReplaced |-> 0,
                   fSelf |-> FALSE, ok |-> TRUE]
        /\ UNCHANGED aig

\* the nodes that the loop of a pass has yet to visit
PassNodes ==
    { id \in man.i .. man.nNodes - 1 : Abc_ObjIsNode(ntk, id) /\ Abc_ObjFanoutNum(ntk, id) <= 1000 }

RefactorNode ==
    /\ man.stage = "pass" /\ man.cmd = "refactor"
    /\ PassNodes # {}
    /\ \E pNode \in {CHOOSE id \in PassNodes : \A o \in PassNodes : id <= o} :
       \E c \in {Abc_NodeFindCut(ntk, pNode, man.nNodeSizeMax, 2)} :
       IF ~c.ok THEN ntk' = ntk /\ man' = [man EXCEPT !.stage = "crash"]
       ELSE
       \E t \in {Abc_NodeConeTruth(ntk, pNode, c.vLeaves)} :
       \E pFForm \in IF ~t.ok \/ t.pTruth \in {{}, Abc_ManResubPatterns}
                     THEN {Dec_GraphNull}
                     ELSE Kit_TruthToGraph(t.pTruth, Len(c.vLeaves)) :
       \E r \in {Abc_NodeRefactor(ntk, pNode, c.vLeaves, man.fUseZeros, pFForm)} :
       IF ~r.ok THEN ntk' = ntk /\ man' = [man EXCEPT !.stage = "crash"]
       ELSE IF r.pFForm = Dec_GraphNull
       THEN ntk' = r.ntk /\ man' = [man EXCEPT !.i = pNode + 1]
       ELSE \E u \in {Dec_GraphToNetwork(r.ntk, r.pFForm)} :
            /\ ntk' = Dec_GraphUpdateNetwork(r.ntk, pNode, r.pFForm)
            /\ man' = [man EXCEPT !.i = pNode + 1, !.nReplaced = @ + 1,
                          !.fSelf = @ \/ pNode \in Abc_NtkTfi(u.ntk, {Abc_ObjId(u.res)})]
    /\ UNCHANGED aig

\* Abc_NtkResubstitute up to its loop; the limit on the cut is at most
\* nLeavesMax, and with the limit 2 a cut can have nodes as its leaves
Resubstitute ==
    \E nStepsMax \in 0 .. 3, nCutMax \in {2, nLeavesMax} :
        /\ man.stage = "build"
        /\ Len(ntk.vPos) > 0
        /\ ntk' = Abc_AigCleanup(ntk)
        /\ man' = [stage |-> "pass", cmd |-> "resub", pNtkOld |-> ntk,
                   nCutMax |-> nCutMax, nStepsMax |-> nStepsMax,
                   i |-> 0, nNodes |-> Len(ntk.vObjs), nReplaced |-> 0,
                   fSelf |-> FALSE, ok |-> TRUE]
        /\ UNCHANGED aig

\* one turn of the loop of Abc_NtkResubstitute with the part of
\* Abc_ManResubEval up to the simulation: the entries of vDivs are handed
\* to the divisor search by their positions, the MFFC as its root with the
\* function it computes over the leaves
ResubstituteNode ==
    /\ man.stage = "pass" /\ man.cmd = "resub"
    /\ PassNodes # {}
    /\ \E pNode \in {CHOOSE id \in PassNodes : \A o \in PassNodes : id <= o} :
       \E c \in {Abc_NodeFindCut(ntk, pNode, man.nCutMax, 100000)} :
       IF ~c.ok THEN ntk' = ntk /\ man' = [man EXCEPT !.stage = "crash"]
       ELSE
       \E m \in {Abc_NodeMffcInside(ntk, pNode, c.vLeaves)} :
       IF ~m.ok \/ m.ret <= 0 THEN ntk' = ntk /\ man' = [man EXCEPT !.stage = "crash"]
       ELSE
       \E d \in {Abc_ManResubCollectDivs(m.ntk, pNode, c.vLeaves, m.vInside)} :
       \E t \in {Abc_NodeConeTruth(ntk, pNode, c.vLeaves)} :
       IF ~d.ok \/ ~t.ok THEN ntk' = ntk /\ man' = [man EXCEPT !.stage = "crash"]
       ELSE IF d.ret = 0 THEN ntk' = d.ntk /\ man' = [man EXCEPT !.i = pNode + 1]
       ELSE
       LET Pos(id) == CHOOSE k \in 1 .. d.nDivs : d.vDivs[k] = id
           Obj(k) == Abc_NtkObj(ntk, d.vDivs[k])
       IN
       \E vDivs \in {[k \in 1 .. d.nDivs + 1 |->
                        IF k <= Len(c.vLeaves)
                        THEN Abc_ResubObj(NULL, 0, NULL, 0, Obj(k).Level, {})
                        ELSE IF k <= d.nDivs
                        THEN Abc_ResubObj(Pos(Obj(k).vFanins[1]), Obj(k).fCompl0,
                                          Pos(Obj(k).vFanins[2]), Obj(k).fCompl1,
                                          Obj(k).Level, {})
                        ELSE Abc_ResubObj(NULL, 0, NULL, 0, Obj(k).Level, t.pTruth)]
                     \o << >>} :
       \* Abc_ManResubSimulate leaves in fPhase of every entry of vDivs, the
       \* nodes of the MFFC included, its value when all the leaves are 0
       \E dS \in {[d.ntk EXCEPT !.vObjs = [j \in 1 .. Len(d.ntk.vObjs) |->
                        IF \E k \in 1 .. Len(d.vDivs) : d.vDivs[k] = j - 1
                        THEN [d.ntk.vObjs[j] EXCEPT !.fPhase =
                                IF 0 \in Abc_NodeConeTruth(ntk, j - 1, c.vLeaves).pTruth
                                THEN 1 ELSE 0]
                        ELSE d.ntk.vObjs[j]] \o << >>]} :
       \E r \in {Abc_ManResubEval(vDivs, Len(c.vLeaves), m.ret, man.nStepsMax)} :
       IF r.pGraph = Dec_GraphNull THEN ntk' = dS /\ man' = [man EXCEPT !.i = pNode + 1]
       ELSE
       \* the leaves of the graph are the objects of the network again
       \E pFForm \in {[r.pGraph EXCEPT !.pNodes = [k \in 1 .. Len(r.pGraph.pNodes) |->
                        IF k <= r.pGraph.nLeaves
                        THEN LET pFunc == r.pGraph.pNodes[k].pFunc IN
                             [r.pGraph.pNodes[k] EXCEPT !.pFunc =
                                2 * d.vDivs[Abc_ObjId(pFunc)] + Abc_ObjIsComplement(pFunc)]
                        ELSE r.pGraph.pNodes[k]] \o << >>]} :
       \E u \in {Dec_GraphToNetwork(dS, pFForm)} :
            /\ ntk' = Dec_GraphUpdateNetwork(dS, pNode, pFForm)
            /\ man' = [man EXCEPT !.i = pNode + 1, !.nReplaced = @ + 1,
                          !.fSelf = @ \/ pNode \in Abc_NtkTfi(u.ntk, {Abc_ObjId(u.res)})]
    /\ UNCHANGED aig

\* the part of a pass after its loop
PassStop ==
    /\ man.stage = "pass"
    /\ PassNodes = {}
    /\ ntk' = Abc_NtkLevel(Abc_NtkReassignIds(ntk))
    /\ man' = [man EXCEPT !.stage = "done", !.ok = Abc_NtkDoCheck(ntk')]
    /\ UNCHANGED aig

NextPass ==
    \/ BalanceAnd \/ BalanceCreatePo
    \/ Refactor \/ RefactorNode
    \/ Resubstitute \/ ResubstituteNode
    \/ PassStop

\* the networks the command is run on have up to MaxPassPis inputs
InitPass ==
    /\ aig = Aig_ManStart
    /\ \E nPis \in 2 .. MaxPassPis : ntk = Abc_NtkCreatePis(Abc_NtkAlloc, nPis)
    /\ man = [stage |-> "build"]

SpecPass == InitPass /\ [][NextPass]_vars

C11_ReplaceRedirects ==
    man.stage = "none" =>
    \A pOld \in Abc_NtkNodeIds(ntk), pNew \in Abc_NtkEdges(ntk) :
        (Abc_ObjId(pNew) # pOld /\ pOld \notin Abc_NtkTfi(ntk, {Abc_ObjId(pNew)})) =>
            LET n2 == Abc_AigReplace(ntk, pOld, pNew)
                C(o, k) == IF k = 1 THEN o.fCompl0 ELSE o.fCompl1
            IN /\ Abc_NtkObj(n2, pOld).Type = "NONE"
               /\ \A f \in 0 .. Len(ntk.vObjs) - 1 :
                    pOld \in { Abc_NtkObj(ntk, f).vFanins[k] :
                                    k \in 1 .. Len(Abc_NtkObj(ntk, f).vFanins) } =>
                        /\ Len(Abc_NtkObj(n2, f).vFanins) = Len(Abc_NtkObj(ntk, f).vFanins)
                        /\ \A k \in 1 .. Len(Abc_NtkObj(ntk, f).vFanins) :
                            IF Abc_NtkObj(ntk, f).vFanins[k] = pOld
                            THEN /\ Abc_NtkObj(n2, f).vFanins[k] = Abc_ObjId(pNew)
                                 /\ C(Abc_NtkObj(n2, f), k) =
                                        (C(Abc_NtkObj(ntk, f), k) + Abc_ObjIsComplement(pNew)) % 2
                            ELSE /\ Abc_NtkObj(n2, f).vFanins[k] = Abc_NtkObj(ntk, f).vFanins[k]
                                 /\ C(Abc_NtkObj(n2, f), k) = C(Abc_NtkObj(ntk, f), k)

\* x = And(a, b) of two PIs is the only node and drives the only CO, and
\* Replace(x, Not(a)) gives the network without nodes whose CO is Not(a)
C11_Witness ==
    /\ man.stage = "none"
    /\ Len(ntk.vPos) = 1
    /\ \E x \in Abc_NtkNodeIds(ntk) :
        LET a  == Abc_NtkObj(ntk, x).vFanins[1]
            po == ntk.vPos[1]
            n2 == Abc_AigReplace(ntk, x, 2 * a + 1)
        IN /\ Abc_NtkNodeIds(ntk) = {x}
           /\ Abc_NtkObj(ntk, a).Type = "PI"
           /\ Abc_NtkObj(ntk, Abc_NtkObj(ntk, x).vFanins[2]).Type = "PI"
           /\ Abc_NtkObj(ntk, x).vFanouts = << po >>
           /\ Abc_NtkObj(ntk, po).fCompl0 = 0
           /\ Abc_NtkNodeIds(n2) = {}
           /\ Abc_NtkObj(n2, x).Type = "NONE"
           /\ Abc_NtkObj(n2, po).vFanins = << a >>
           /\ Abc_NtkObj(n2, po).fCompl0 = 1

(***************************************************************************)
(* C12: for every edge p of the manager, Aig_And(p, p) returns p and       *)
(* Aig_And(p, Not(p)) returns the complemented constant 1; neither call    *)
(* creates an object or changes the manager                                *)
(***************************************************************************)
C12_TrivialAnd ==
    \A p \in Aig_ManEdges(aig) :
        /\ Aig_And(aig, p, p) = [man |-> aig, res |-> p]
        /\ Aig_And(aig, p, Aig_Not(p)) = [man |-> aig, res |-> Aig_Not(Aig_ManConst1)]
        /\ Aig_And(aig, Aig_Not(p), p) = [man |-> aig, res |-> Aig_Not(Aig_ManConst1)]

\* a manager with an AND node x, on which And(x, x) and And(x, Not(x)) are
\* the edge x and the constant 0
C12_Witness ==
    \E x \in Aig_ManAnds(aig) :
        /\ Aig_And(aig, 2 * x, 2 * x).res = 2 * x
        /\ Aig_And(aig, 2 * x, 2 * x + 1).res = Aig_Not(Aig_ManConst1)
        /\ Aig_And(aig, 2 * x, 2 * x + 1).man = aig

Extra_FileSize(pFile) == IF pFile.fExists THEN Len(pFile.vBytes) ELSE 0

\* Io_ReadAigerDecode: the number of 7-bit groups that starts at pPos and
\* the position after it; pPos = 0 when the bytes of the buffer end first
Io_ReadAigerDecode(pContents, pPos) ==
    LET RECURSIVE Dec(_, _, _)
        Dec(p, x, i) ==
            IF p > Len(pContents) THEN [x |-> 0, pPos |-> 0]
            ELSE IF pContents[p] >= 128
                 THEN Dec(p + 1, x + (pContents[p] % 128) * 2 ^ (7 * i), i + 1)
                 ELSE [x |-> x + pContents[p] * 2 ^ (7 * i), pPos |-> p + 1]
    IN Dec(pPos, 0, 0)

\* Io_ReadAiger: the set of the results the call can have, each the network
\* with err = "", or NULL with the diagnostic that was printed.  A read outside the buffer
\* of nFileSize bytes has the results of a buffer that does not start with
\* "aig " and of one on which the procedure goes on with bytes that are not
\* those of the file (err = "undefined").
Io_ReadAiger(pFile, fCheck) ==
    LET b == pFile.vBytes
        nFileSize == Extra_FileSize(pFile)
        \* fread( pContents, nFileSize, 1, pFile ) returns the number of the
        \* items of nFileSize bytes that were read
        nRead == IF nFileSize > 0 THEN 1 ELSE 0
        Fail(s) == [pNtk |-> NULL, err |-> s]
        Undefined == { Fail("Wrong input file format."), Fail("undefined") }
        In(p) == p >= 1 /\ p <= nFileSize
        \* the first position from p on with a byte of S, 0 outside the buffer
        RECURSIVE Find(_, _)
        Find(p, S) == IF ~In(p) THEN 0 ELSE IF b[p] \in S THEN p ELSE Find(p + 1, S)
        \* atoi at p, -1 when the digits reach the end of the buffer
        RECURSIVE Atoi(_, _)
        Atoi(p, x) == IF ~In(p) THEN 0 - 1
                      ELSE IF b[p] \in 48 .. 57 THEN Atoi(p + 1, 10 * x + b[p] - 48)
                      ELSE x
        \* the positions of the five numbers M I L O A of the parameter line
        RECURSIVE Params(_, _)
        Params(p, k) == IF k = 0 \/ p = 0 THEN << >>
                        ELSE LET q == Find(p, {32}) IN
                             IF q = 0 THEN << 0 >> ELSE << q + 1 >> \o Params(q + 1, k - 1)
        vPos5 == Params(1, 5)
        Num(k) == Atoi(vPos5[k], 0)
        nTotal == Num(1)
        nInputs == Num(2)
        nLatches == Num(3)
        nAnds == Num(5)
        \* the numbers B C J F that can follow, and the position after them
        RECURSIVE Ext(_, _)
        Ext(p, acc) == IF p # 0 /\ In(p) /\ b[p] = 32 /\ Len(acc) < 4
                       THEN Ext(Find(p + 1, {32, 10}), Append(acc, Atoi(p + 1, 0)))
                       ELSE [p |-> p, v |-> acc \o [i \in 1 .. 4 - Len(acc) |-> 0]]
        e == Ext(Find(vPos5[5], {32, 10}), << >>)
        nOutputs == Num(4) + e.v[1] + e.v[2] + e.v[3] + e.v[4]
        pDrivers == e.p + 1
        \* the position after the lines of the latch and output literals
        RECURSIVE Scroll(_, _)
        Scroll(p, i) == IF i = 0 THEN p ELSE IF ~In(p) THEN 0
                        ELSE Scroll(p + 1, IF b[p] = 10 THEN i - 1 ELSE i)
        RECURSIVE CreatePos(_, _)
        CreatePos(n, i) == IF i = 0 THEN n ELSE CreatePos(Abc_NtkCreateObj(n, "PO"), i - 1)
        n0 == CreatePos(Abc_NtkCreatePis(Abc_NtkAlloc, nInputs), nOutputs)
        \* the AND gates: ok = FALSE when a byte or an entry of vNodes is
        \* read that is not there
        RECURSIVE Ands(_, _, _, _)
        Ands(n, vNodes, p, i) ==
            IF i = nAnds THEN [ntk |-> n, vNodes |-> vNodes, ok |-> TRUE]
            ELSE LET uLit  == 2 * (i + 1 + nInputs + nLatches)
                     d1    == Io_ReadAigerDecode(b, p)
                     d0    == Io_ReadAigerDecode(b, d1.pPos)
                     \* unsigned: a difference below 0 is a literal above 2^31
                     uLit1 == uLit - d1.x
                     uLit0 == uLit1 - d0.x
                 IN IF p = 0 \/ d1.pPos = 0 \/ d0.pPos = 0 \/ uLit0 < 0 \/ uLit1 < 0
                       \/ uLit0 \div 2 >= Len(vNodes) \/ uLit1 \div 2 >= Len(vNodes)
                    THEN [ntk |-> n, vNodes |-> vNodes, ok |-> FALSE]
                    ELSE LET r == Abc_AigAnd(n,
                                    Abc_ObjNotCond(vNodes[uLit0 \div 2 + 1], uLit0 % 2),
                                    Abc_ObjNotCond(vNodes[uLit1 \div 2 + 1], uLit1 % 2))
                         IN Ands(r.ntk, Append(vNodes, r.res), d0.pPos, i + 1)
        a == Ands(n0, << Abc_ObjNot(Abc_AigConst1) >>
                          \o [i \in 1 .. nInputs |-> 2 * n0.vPis[i]],
                  Scroll(pDrivers, nLatches + nOutputs), 0)
        \* the drivers of the POs
        RECURSIVE Drivers(_, _, _)
        Drivers(n, p, i) ==
            IF i > Len(n.vPos) THEN [ntk |-> n, ok |-> TRUE]
            ELSE LET uLit0 == Atoi(p, 0)
                     q == Find(p, {10})
                 IN IF uLit0 < 0 \/ q = 0 \/ uLit0 \div 2 >= Len(a.vNodes)
                    THEN [ntk |-> n, ok |-> FALSE]
                    ELSE Drivers(Abc_ObjAddFanin(n, n.vPos[i],
                                    Abc_ObjNotCond(a.vNodes[uLit0 \div 2 + 1], uLit0 % 2)),
                                 q + 1, i + 1)
        d == Drivers(a.ntk, pDrivers, 1)
        pNtkNew == Abc_AigCleanup(d.ntk)
    IN IF nRead # nFileSize THEN { Fail("Error reading file.") }
       \* strncmp(pContents, "aig", 3) != 0 || pContents[3] != ' '
       ELSE IF nFileSize = 0 THEN Undefined
       ELSE IF b[1] # 97 THEN { Fail("Wrong input file format.") }
       ELSE IF nFileSize < 2 THEN Undefined
       ELSE IF b[2] # 105 THEN { Fail("Wrong input file format.") }
       ELSE IF nFileSize < 3 THEN Undefined
       ELSE IF b[3] # 103 THEN { Fail("Wrong input file format.") }
       ELSE IF nFileSize < 4 THEN Undefined
       ELSE IF b[4] # 32 THEN { Fail("Wrong input file format.") }
       ELSE IF \E k \in 1 .. Len(vPos5) : vPos5[k] = 0 \/ Num(k) < 0 THEN Undefined
       ELSE IF e.p = 0 \/ \E k \in 1 .. 4 : e.v[k] < 0 THEN Undefined
       ELSE IF b[e.p] # 10 THEN { Fail("The parameter line is in a wrong format.") }
       ELSE IF nTotal # nInputs + nLatches + nAnds
            THEN { Fail("The number of objects does not match.") }
       ELSE IF e.v[3] # 0 \/ e.v[4] # 0
            THEN { Fail("Reading AIGER files with liveness properties is currently not supported.") }
       ELSE IF nLatches # 0 THEN { }
       ELSE IF ~a.ok \/ ~d.ok THEN Undefined
       ELSE IF fCheck = 1 /\ ~Abc_NtkDoCheck(pNtkNew)
            THEN { Fail("Io_ReadAiger: The network check has failed.") }
       ELSE { [pNtk |-> pNtkNew, err |-> ""] }

\* Io_Read with Io_ReadNetlist: the file is opened and closed once before
\* it is read
Io_Read(pFile, fCheck) ==
    IF ~pFile.fExists THEN { [pNtk |-> NULL, err |-> "Cannot open input file."] }
    ELSE { IF r.err \notin {"", "undefined"}
           THEN [pNtk |-> NULL, err |-> "Reading AIG from file has failed."]
           ELSE r : r \in Io_ReadAiger(pFile, fCheck) }

\* the command read_aiger with its file and its flag -c: the network that
\* was read replaces the current network and the command returns 0, or
\* the command returns 1.  The stage is "crash" after a read outside the
\* buffer that did not end in a diagnostic.
IoCommandReadAiger ==
    /\ man.stage = "file"
    /\ \E r \in Io_Read(man.pFile, man.fCheck) :
        IF r.err = "undefined"
        THEN ntk' = ntk /\ man' = [man EXCEPT !.stage = "crash"]
        ELSE IF r.err # ""
        THEN ntk' = ntk /\ man' = [man EXCEPT !.stage = "done", !.ret = 1, !.err = r.err]
        ELSE ntk' = r.pNtk /\ man' = [man EXCEPT !.stage = "done", !.ret = 0]
    /\ UNCHANGED aig

NextRead == IoCommandReadAiger

\* the current network is one without nodes; the file is "aig 3 2 0 1 1"
\* with the output 6 and the AND gate 6 = 4 AND 2, "aig 1 1 0 1 0" with the
\* output 2, "aig 2 2 0 1 1" with the output 6 and the AND gate 6 = 5 AND 4,
\* one of their prefixes, one of them with another byte in one place, or it
\* cannot be opened
InitRead ==
    /\ aig = Aig_ManStart
    /\ \E nPis \in 1 .. 2 : ntk = Abc_NtkCreatePis(Abc_NtkAlloc, nPis)
    /\ LET vAnd == << 97, 105, 103, 32, 51, 32, 50, 32, 48, 32, 49, 32, 49, 10, 54, 10, 2, 2 >>
           vBuf == << 97, 105, 103, 32, 49, 32, 49, 32, 48, 32, 49, 32, 48, 10, 50, 10 >>
           vTwo == << 97, 105, 103, 32, 50, 32, 50, 32, 48, 32, 49, 32, 49, 10, 54, 10, 1, 1 >>
       IN \E v \in {vAnd, vBuf, vTwo}, k \in 0 .. MaxFileSize, j \in 0 .. MaxFileSize,
             c \in {57, 120}, fExists \in BOOLEAN, fCheck \in 0 .. 1 :
            /\ k <= Len(v) /\ j <= k
            /\ fExists \/ (k = Len(v) /\ j = 0)
            /\ man = [stage |-> "file", fCheck |-> fCheck, pNtkOld |-> ntk,
                      ret |-> 0 - 1, err |-> "",
                      pFile |-> [fExists |-> fExists,
                                 vBytes |-> [i \in 1 .. k |-> IF i = j THEN c ELSE v[i]]
                                                \o << >>]]

SpecRead == InitRead /\ [][NextRead]_vars

(***************************************************************************)
(* C16: read_aiger on a file with an error (it cannot be opened, its       *)
(* header is bad, it is truncated, a literal is out of range) ends with a  *)
(* diagnostic and the value 1 and leaves the current network as it was,    *)
(* and it reads nothing outside of what it was given.  The files without   *)
(* an error are "aig 3 2 0 1 1" and "aig 1 1 0 1 0" of InitRead.           *)
(***************************************************************************)
C16_ErrorsHandled ==
    LET vAnd == << 97, 105, 103, 32, 51, 32, 50, 32, 48, 32, 49, 32, 49, 10, 54, 10, 2, 2 >>
        vBuf == << 97, 105, 103, 32, 49, 32, 49, 32, 48, 32, 49, 32, 48, 10, 50, 10 >>
    IN (/\ man.stage \in {"done", "crash"}
        /\ ~man.pFile.fExists \/ man.pFile.vBytes \notin {vAnd, vBuf}) =>
            /\ man.stage = "done"
            /\ man.ret = 1
            /\ man.err # ""
            /\ ntk = man.pNtkOld

(***************************************************************************)
(* C17: read_aiger on a well-formed file, whatever its size, returns a     *)
(* network; for the file "aig 2 2 0 1 1", output literal 6, one AND with   *)
(* the fanin literals 4 and 5, the network has 2 PIs and 1 PO driven by    *)
(* AND(PI0, PI1)                                                           *)
(***************************************************************************)
C17_WellFormedRead ==
    LET vAnd == << 97, 105, 103, 32, 51, 32, 50, 32, 48, 32, 49, 32, 49, 10, 54, 10, 2, 2 >>
        vBuf == << 97, 105, 103, 32, 49, 32, 49, 32, 48, 32, 49, 32, 48, 10, 50, 10 >>
        vTwo == << 97, 105, 103, 32, 50, 32, 50, 32, 48, 32, 49, 32, 49, 10, 54, 10, 1, 1 >>
    IN (/\ man.stage \in {"done", "crash"}
        /\ man.pFile.fExists /\ man.pFile.vBytes \in {vAnd, vBuf, vTwo}) =>
            /\ man.stage = "done"
            /\ man.ret = 0
            /\ man.pFile.vBytes = vTwo =>
                /\ Len(ntk.vPis) = 2 /\ Len(ntk.vPos) = 1
                /\ LET po == Abc_NtkObj(ntk, ntk.vPos[1])
                       pDriver == Abc_NtkObj(ntk, po.vFanins[1])
                   IN /\ po.fCompl0 = 0
                      /\ pDriver.Type = "NODE"
                      /\ pDriver.vFanins = ntk.vPis
                      /\ pDriver.fCompl0 = 0 /\ pDriver.fCompl1 = 0

(***************************************************************************)
(* The zero command (abc.c 612-659, abcStrash.c 40-88) on a network with   *)
(* latches.  The network is built the way the AIGER reader builds one: the *)
(* PIs, the POs, every latch with its input and its output, the AND nodes, *)
(* the drivers of the latch inputs with the reset values, the drivers of   *)
(* the POs.                                                                *)
(***************************************************************************)
\* the largest number of latches and of AND nodes of the network
MaxZeroLatches == 2

MaxZeroNodes == 1

\* ABC_INIT_ZERO, ABC_INIT_ONE, ABC_INIT_DC of Abc_InitType_t
ABC_INIT_ZERO == 1

ABC_INIT_ONE == 2

ABC_INIT_DC == 3

\* the restrash without the complement on the input of a latch that had the
\* reset value 1
Abc_NtkRestrashZeroNoXor(pNtk) ==
    LET b0 == Abc_NtkStartFrom(pNtk)
        RECURSIVE Ones(_, _)
        Ones(b, i) ==
            IF i > Len(pNtk.vBoxes) THEN b
            ELSE LET pObj == pNtk.vBoxes[i] IN
                 Ones(IF Abc_NtkObj(pNtk, pObj).pData = ABC_INIT_ONE
                      THEN [b EXCEPT !.pCopy[Abc_NtkObj(pNtk, pObj).vFanouts[1] + 1] =
                                            Abc_ObjNot(@)]
                      ELSE b, i + 1)
        ChildCopy(b, pObj, k) ==
            Abc_ObjNotCond(b.pCopy[Abc_NtkObj(pNtk, pObj).vFanins[k] + 1],
                           IF k = 1 THEN Abc_NtkObj(pNtk, pObj).fCompl0
                           ELSE Abc_NtkObj(pNtk, pObj).fCompl1)
        RECURSIVE Nodes(_, _)
        Nodes(b, pObj) ==
            IF pObj >= Len(pNtk.vObjs) THEN b
            ELSE IF ~Abc_ObjIsNode(pNtk, pObj) THEN Nodes(b, pObj + 1)
            ELSE LET r == Abc_AigAnd(b.ntk, ChildCopy(b, pObj, 1), ChildCopy(b, pObj, 2))
                 IN Nodes([b EXCEPT !.ntk = r.ntk, !.pCopy[pObj + 1] = r.res], pObj + 1)
        b3 == Abc_NtkFinalize(pNtk, Nodes(Ones(b0, 1), 0), 1)
        pNtkAig == [b3.ntk EXCEPT !.vObjs = [j \in 1 .. Len(b3.ntk.vObjs) |->
                        IF b3.ntk.vObjs[j].Type = "LATCH"
                        THEN [b3.ntk.vObjs[j] EXCEPT !.pData = ABC_INIT_ZERO]
                        ELSE b3.ntk.vObjs[j]] \o << >>]
    IN IF Abc_NtkDoCheck(pNtkAig) THEN pNtkAig ELSE Abc_NtkNull

\* Abc_NtkRestrashZero: the new network, or Abc_NtkNull when its check fails
Abc_NtkRestrashZero(pNtk) ==
    LET \* the new network with the terminals and the latches of the old one
        b0 == Abc_NtkStartFrom(pNtk)
        \* the copy of the output of a latch with the reset value 1 is complemented
        RECURSIVE Ones(_, _)
        Ones(b, i) ==
            IF i > Len(pNtk.vBoxes) THEN b
            ELSE LET pObj == pNtk.vBoxes[i] IN
                 Ones(IF Abc_NtkObj(pNtk, pObj).pData = ABC_INIT_ONE
                      THEN [b EXCEPT !.pCopy[Abc_NtkObj(pNtk, pObj).vFanouts[1] + 1] =
                                            Abc_ObjNot(@)]
                      ELSE b, i + 1)
        \* Abc_ObjChild0Copy and Abc_ObjChild1Copy
        ChildCopy(b, pObj, k) ==
            Abc_ObjNotCond(b.pCopy[Abc_NtkObj(pNtk, pObj).vFanins[k] + 1],
                           IF k = 1 THEN Abc_NtkObj(pNtk, pObj).fCompl0
                           ELSE Abc_NtkObj(pNtk, pObj).fCompl1)
        \* the nodes of the old network are restrashed in the order of their Ids
        RECURSIVE Nodes(_, _)
        Nodes(b, pObj) ==
            IF pObj >= Len(pNtk.vObjs) THEN b
            ELSE IF ~Abc_ObjIsNode(pNtk, pObj) THEN Nodes(b, pObj + 1)
            ELSE LET r == Abc_AigAnd(b.ntk, ChildCopy(b, pObj, 1), ChildCopy(b, pObj, 2))
                 IN Nodes([b EXCEPT !.ntk = r.ntk, !.pCopy[pObj + 1] = r.res], pObj + 1)
        b3 == Abc_NtkFinalize(pNtk, Nodes(Ones(b0, 1), 0), 1)
        \* Abc_ObjXorFaninC on the input of every new latch with the reset value 1
        RECURSIVE Xors(_, _)
        Xors(n, i) ==
            IF i > Len(n.vBoxes) THEN n
            ELSE Xors(IF Abc_NtkObj(n, n.vBoxes[i]).pData = ABC_INIT_ONE
                      THEN [n EXCEPT !.vObjs[Abc_ObjFaninId0(n, n.vBoxes[i]) + 1].fCompl0 =
                                            (@ + 1) % 2]
                      ELSE n, i + 1)
        n4 == Xors(b3.ntk, 1)
        \* Abc_LatchSetInit0 on every latch
        pNtkAig == [n4 EXCEPT !.vObjs = [j \in 1 .. Len(n4.vObjs) |->
                        IF n4.vObjs[j].Type = "LATCH"
                        THEN [n4.vObjs[j] EXCEPT !.pData = ABC_INIT_ZERO]
                        ELSE n4.vObjs[j]] \o << >>]
    IN IF Abc_NtkDoCheck(pNtkAig) THEN pNtkAig ELSE Abc_NtkNull

\* an AND node of the network, created before any driver is connected
ZeroAnd ==
    /\ man.stage = "seq"
    /\ \A i \in 1 .. Len(ntk.vCos) : Abc_NtkObj(ntk, ntk.vCos[i]).vFanins = << >>
    /\ Cardinality(Abc_NtkNodeIds(ntk)) < MaxZeroNodes
    /\ \E p0, p1 \in Abc_NtkEdges(ntk) :
        /\ ntk' = Abc_AigAnd(ntk, p0, p1).ntk
        /\ ntk' # ntk
    /\ UNCHANGED << aig, man >>

\* the driver of the next CO without one, the latch inputs in the order of
\* the latches and then the POs; a latch gets its reset value with its driver
ZeroDriver ==
    /\ man.stage = "seq"
    /\ LET vCos == [i \in 1 .. Len(ntk.vBoxes) |-> Abc_ObjFaninId0(ntk, ntk.vBoxes[i])]
                        \o ntk.vPos
       IN \E i \in 1 .. Len(vCos) :
            /\ Abc_NtkObj(ntk, vCos[i]).vFanins = << >>
            /\ \A j \in 1 .. i - 1 : Abc_NtkObj(ntk, vCos[j]).vFanins # << >>
            /\ \E p \in Abc_NtkEdges(ntk), Init \in {ABC_INIT_ZERO, ABC_INIT_ONE, ABC_INIT_DC} :
                /\ i > Len(ntk.vBoxes) => Init = ABC_INIT_ZERO
                /\ ntk' = Abc_ObjAddFanin(
                            IF i <= Len(ntk.vBoxes)
                            THEN [ntk EXCEPT !.vObjs[ntk.vBoxes[i] + 1].pData = Init]
                            ELSE ntk, vCos[i], p)
    /\ UNCHANGED << aig, man >>

\* Abc_CommandZero: a combinational network is left as it is; the network
\* with the reset values 0 replaces the current one, or the command
\* returns 1
Abc_CommandZero ==
    /\ man.stage = "seq"
    /\ \A i \in 1 .. Len(ntk.vCos) : Abc_NtkObj(ntk, ntk.vCos[i]).vFanins # << >>
    /\ IF Len(ntk.vBoxes) = 0
       THEN ntk' = ntk /\ man' = [man EXCEPT !.stage = "done", !.ret = 0, !.pNtkOld = ntk]
       ELSE \E pNtkRes \in {Abc_NtkRestrashZero(ntk)} :
            IF pNtkRes = Abc_NtkNull
            THEN ntk' = ntk /\ man' = [man EXCEPT !.stage = "done", !.ret = 1, !.pNtkOld = ntk]
            ELSE ntk' = pNtkRes /\ man' = [man EXCEPT !.stage = "done", !.ret = 0, !.pNtkOld = ntk]
    /\ UNCHANGED aig

NextZero == ZeroAnd \/ ZeroDriver \/ Abc_CommandZero

\* one PI, one PO and up to MaxZeroLatches latches, nothing connected yet:
\* Abc_NtkCreateLatch with Abc_LatchSetInit0, Abc_NtkCreateBi and
\* Abc_NtkCreateBo, connected as the reader connects them
InitZero ==
    /\ aig = Aig_ManStart
    /\ LET RECURSIVE Latches(_, _)
           Latches(n, k) ==
                IF k = 0 THEN n
                ELSE LET pObj == Len(n.vObjs)
                         n1 == [Abc_NtkCreateObj(n, "LATCH") EXCEPT
                                    !.vObjs[pObj + 1].pData = ABC_INIT_ZERO]
                         n2 == Abc_NtkCreateObj(Abc_NtkCreateObj(n1, "BI"), "BO")
                         n3 == Abc_ObjAddFanin(n2, pObj, 2 * (pObj + 1))
                     IN Latches(Abc_ObjAddFanin(n3, pObj + 2, 2 * pObj), k - 1)
       IN \E nLatches \in 0 .. MaxZeroLatches :
            ntk = Latches(Abc_NtkCreateObj(Abc_NtkCreatePis(Abc_NtkAlloc, 1), "PO"), nLatches)
    /\ man = [stage |-> "seq", ret |-> 0 - 1, pNtkOld |-> Abc_NtkAlloc]

SpecZero == InitZero /\ [][NextZero]_vars

\* the PO values of the network n and of the network m, side by side, under
\* every input sequence: both start from their reset values (a latch holds 1
\* exactly when its reset value is 1), the latches correspond in the order
\* of vBoxes, and after each clock cycle a latch holds the value of its input
Abc_NtkSeqOutputs(n, m) ==
    LET Ins == [1 .. Len(n.vPis) -> BOOLEAN]
        Asg(x, st, in) ==
            [id \in 0 .. Len(x.vObjs) - 1 |->
                IF \E i \in 1 .. Len(x.vBoxes) : Abc_NtkObj(x, x.vBoxes[i]).vFanouts[1] = id
                THEN st[CHOOSE i \in 1 .. Len(x.vBoxes) :
                            Abc_NtkObj(x, x.vBoxes[i]).vFanouts[1] = id]
                ELSE \E k \in 1 .. Len(x.vPis) : x.vPis[k] = id /\ in[k]]
        Reset(x) == [i \in 1 .. Len(x.vBoxes) |->
                        Abc_NtkObj(x, x.vBoxes[i]).pData = ABC_INIT_ONE]
        Step(x, st, in) ==
            [i \in 1 .. Len(x.vBoxes) |->
                Abc_ObjValue(x, Abc_ObjFaninId0(x, x.vBoxes[i]), Asg(x, st, in))]
        Out(x, st, in) ==
            [i \in 1 .. Len(x.vPos) |-> Abc_ObjValue(x, x.vPos[i], Asg(x, st, in))]
        RECURSIVE Reach(_)
        Reach(S) ==
            LET T == S \cup { << Step(n, s[1], in), Step(m, s[2], in) >> : s \in S, in \in Ins }
            IN IF T = S THEN S ELSE Reach(T)
    IN { << Out(n, s[1], in), Out(m, s[2], in) >> :
            s \in Reach({ << Reset(n), Reset(m) >> }), in \in Ins }

\* C18: after zero on a network with latches every latch has the reset
\* value 0 and, when no latch of the old network had a don't-care reset
\* value, the old network from its reset state and the new network from
\* its reset state give the same PO values under every input sequence
C18_ZeroEquivalent ==
    (man.stage = "done" /\ Len(man.pNtkOld.vBoxes) > 0) =>
        /\ man.ret = 0
        /\ \A i \in 1 .. Len(ntk.vBoxes) :
                Abc_NtkObj(ntk, ntk.vBoxes[i]).pData = ABC_INIT_ZERO
        /\ (\A i \in 1 .. Len(man.pNtkOld.vBoxes) :
                Abc_NtkObj(man.pNtkOld, man.pNtkOld.vBoxes[i]).pData # ABC_INIT_DC) =>
            \A o \in Abc_NtkSeqOutputs(man.pNtkOld, ntk) : o[1] = o[2]

\* zero was run on a network with a latch of reset value 1 and a latch of
\* reset value 0 whose PO takes both values, and the new network has a node
C18_Witness ==
    /\ man.stage = "done" /\ man.ret = 0
    /\ \E i, j \in 1 .. Len(man.pNtkOld.vBoxes) :
        /\ Abc_NtkObj(man.pNtkOld, man.pNtkOld.vBoxes[i]).pData = ABC_INIT_ONE
        /\ Abc_NtkObj(man.pNtkOld, man.pNtkOld.vBoxes[j]).pData = ABC_INIT_ZERO
    /\ Abc_NtkNodeIds(ntk) # {}
    /\ \E o, q \in Abc_NtkSeqOutputs(man.pNtkOld, ntk) : o[2] # q[2]

(***************************************************************************)
(* The count of Dec_GraphToNetworkCount on the networks of SpecNtk: the    *)
(* graphs of one or two gates over the two primary inputs, evaluated for   *)
(* every root after the labeling of its MFFC.                              *)
(***************************************************************************)
\* the graphs of one gate over the leaves l1 and l2, and the graphs with a
\* second gate over a leaf and the first gate
C21_Graphs(l1, l2) ==
    LET g0 == Dec_GraphSetLeaf(Dec_GraphSetLeaf(Dec_GraphCreate(2), 0, 2 * l1), 1, 2 * l2)
        One == { Dec_GraphAddNodeAnd(g0, Dec_EdgeCreate(0, c0), Dec_EdgeCreate(1, c1)) :
                   c0 \in 0 .. 1, c1 \in 0 .. 1 }
        Two == { Dec_GraphAddNodeAnd(r.g, Dec_EdgeCreate(k, c0), Dec_EdgeCreate(2, c1)) :
                   r \in One, k \in 0 .. 1, c0 \in 0 .. 1, c1 \in 0 .. 1 }
    IN { [r.g EXCEPT !.eRoot = r.e] : r \in One \cup Two }

\* the nodes that the lookups of the gates of the graph return, NULL for a
\* gate that is not found or that has a fanin that was not found
C21_Found(n, pGraph) ==
    LET Lit(e, v) == IF v = NULL THEN NULL ELSE Abc_ObjNotCond(v, e.fCompl)
        Look(a, b) == IF a = NULL \/ b = NULL THEN NULL ELSE Abc_AigAndLookup(n, a, b)
        Leaf(e)   == pGraph.pNodes[e.Node + 1].pFunc
        G1 == pGraph.pNodes[3]
        a1 == Look(Lit(G1.eEdge0, Leaf(G1.eEdge0)), Lit(G1.eEdge1, Leaf(G1.eEdge1)))
    IN IF Len(pGraph.pNodes) = 3 THEN << a1 >>
       ELSE << a1, Look(Lit(pGraph.pNodes[4].eEdge0, Leaf(pGraph.pNodes[4].eEdge0)),
                        Lit(pGraph.pNodes[4].eEdge1, a1)) >>

\* the graphs over the two primary inputs of the network
C21_Forms ==
    IF Len(ntk.vPis) < 2 THEN {} ELSE C21_Graphs(ntk.vPis[1], ntk.vPis[2])

(***************************************************************************)
(* C21: when a graph is evaluated for a root whose MFFC is labeled, a gate *)
(* whose fanin pair is found in the structural hashing table outside the   *)
(* MFFC of the root adds nothing to the count of new nodes; a gate that is *)
(* not found adds one, and so does a gate that is found inside the MFFC.   *)
(* The count is -1 when a gate is the root itself.                         *)
(***************************************************************************)
C21_CountNewAndMffc ==
    \A r \in Abc_NtkNodeIds(ntk) :
        LET Holds(m, vMffc) ==
                m.ok => \A g \in C21_Forms :
                    LET Is(f) ==
                          Dec_GraphToNetworkCount(m.ntk, r, g, MaxObjs) =
                            IF \E i \in 1 .. Len(f) : f[i] # NULL /\ Abc_ObjId(f[i]) = r
                            THEN 0 - 1
                            ELSE Cardinality({ i \in 1 .. Len(f) :
                                    f[i] = NULL \/ Abc_ObjId(f[i]) \in vMffc })
                    IN Is(C21_Found(ntk, g))
        IN Holds(Abc_NodeMffcLabelAig(Abc_NtkIncrementTravId(ntk), r), NtkMffc(ntk, {r}))

\* a graph whose first gate is found inside the MFFC of the root, is not the
\* root and is counted, and a graph whose gate is found outside the MFFC
C21_Witness ==
    \E r \in Abc_NtkNodeIds(ntk) :
        LET m == Abc_NodeMffcLabelAig(Abc_NtkIncrementTravId(ntk), r) IN
        /\ m.ok
        /\ \E g \in C21_Forms :
              LET f == C21_Found(ntk, g) IN
              /\ f[1] # NULL /\ Abc_ObjId(f[1]) # r
              /\ Abc_ObjId(f[1]) \in NtkMffc(ntk, {r})
              /\ Len(f) = 2 /\ f[2] = NULL
              /\ Dec_GraphToNetworkCount(m.ntk, r, g, MaxObjs) = 2
        /\ \E g \in C21_Forms :
              LET f == C21_Found(ntk, g) IN
              /\ Len(f) = 1 /\ f[1] # NULL
              /\ Abc_ObjId(f[1]) \notin NtkMffc(ntk, {r})
              /\ Dec_GraphToNetworkCount(m.ntk, r, g, MaxObjs) = 0

\* the claim as it was stated: only a gate that is not found adds one
C21_FoundIsFree ==
    \A r \in Abc_NtkNodeIds(ntk) :
        LET Holds(m) ==
                m.ok => \A g \in C21_Forms :
                    LET Is(f, cnt) ==
                          cnt # 0 - 1 =>
                             cnt = Cardinality({ i \in 1 .. Len(f) : f[i] = NULL })
                    IN Is(C21_Found(ntk, g), Dec_GraphToNetworkCount(m.ntk, r, g, MaxObjs))
        IN Holds(Abc_NodeMffcLabelAig(Abc_NtkIncrementTravId(ntk), r))

(***************************************************************************)
(* The loop of Abc_NodeBalance_rec turn by turn.  ntk is the new network,  *)
(* man.vSuper the supergate whose entries are edges of the new network,    *)
(* man.vPrev and man.pNtkPrev the supergate and the network before the     *)
(* last turn, man.pNode1 and man.pNode2 the entries the last turn pulled   *)
(* out.                                                                    *)
(***************************************************************************)
MaxSuperPis == 3
MaxSuperNodes == 2
MaxSuperSize == 3

\* the turn that pulls out the first two entries of the supergate
Abc_NodeBalanceStepFirst(pNtkNew, vSuper) ==
    LET Push(v1, r) ==
            [ntk |-> r.ntk,
             vSuper |-> Abc_VecObjPushUniqueOrderByLevel(r.ntk, SubSeq(v1, 3, Len(v1)), r.res),
             pNode1 |-> v1[1], pNode2 |-> v1[2]]
        And(v1) == Push(v1, Abc_AigAnd(pNtkNew, v1[1], v1[2]))
    IN And(Abc_NodeBalancePermute(pNtkNew, vSuper))

\* one turn of the loop: the permutation, the two pops, the AND and the push
Abc_NodeBalanceStep(pNtkNew, vSuper) ==
    LET Push(v1, r) ==
            [ntk |-> r.ntk,
             vSuper |-> Abc_VecObjPushUniqueOrderByLevel(r.ntk, SubSeq(v1, 1, Len(v1) - 2), r.res),
             pNode1 |-> v1[Len(v1)], pNode2 |-> v1[Len(v1) - 1]]
        And(v1) == Push(v1, Abc_AigAnd(pNtkNew, v1[Len(v1)], v1[Len(v1) - 1]))
    IN And(Abc_NodeBalancePermute(pNtkNew, vSuper))

InitSuper ==
    /\ aig = Aig_ManStart
    /\ ntk = Abc_NtkCreatePis(Abc_NtkAlloc, MaxSuperPis)
    /\ man = [stage |-> "build"]

\* the nodes that earlier calls of Abc_NodeBalance_rec have built
SuperAnd ==
    \E p0 \in Abc_NtkEdges(ntk), p1 \in Abc_NtkEdges(ntk) :
        /\ man.stage = "build"
        /\ Cardinality(Abc_NtkNodeIds(ntk)) < MaxSuperNodes
        /\ Abc_ObjId(p0) < Abc_ObjId(p1) /\ Abc_ObjId(p0) # 0
        \* up to the names of the PIs the first node is over the first two
        /\ Abc_NtkNodeIds(ntk) = {} =>
                { Abc_ObjId(p0), Abc_ObjId(p1) } = { ntk.vPis[1], ntk.vPis[2] }
        /\ ntk' = Abc_AigAnd(ntk, p0, p1).ntk
        /\ ntk' # ntk
        /\ UNCHANGED << aig, man >>

\* the supergate after its entries were replaced by their new nodes, and
\* Vec_PtrSort; the entries are edges to different objects
SuperSort ==
    \E S \in SUBSET (Abc_NtkEdges(ntk) \ {Abc_AigConst1, Abc_ObjNot(Abc_AigConst1)}) :
        /\ man.stage = "build"
        /\ Cardinality(S) \in 2 .. MaxSuperSize
        /\ \A a \in S, b \in S : Abc_ObjId(a) = Abc_ObjId(b) => a = b
        /\ man' = [stage |-> "loop", vSuper |-> Vec_PtrSort(ntk, SetToSeq(S), 0),
                   vPrev |-> << >>, pNtkPrev |-> ntk, pNode1 |-> NULL, pNode2 |-> NULL]
        /\ UNCHANGED << aig, ntk >>

SuperStep ==
    /\ man.stage = "loop"
    /\ Len(man.vSuper) > 1
    /\ \E r \in {Abc_NodeBalanceStep(ntk, man.vSuper)} :
          /\ ntk' = r.ntk
          /\ man' = [man EXCEPT !.vSuper = r.vSuper, !.vPrev = man.vSuper, !.pNtkPrev = ntk,
                                !.pNode1 = r.pNode1, !.pNode2 = r.pNode2]
    /\ UNCHANGED aig

NextSuper == SuperAnd \/ SuperSort \/ SuperStep

SpecSuper == InitSuper /\ [][NextSuper]_vars

\* the level of the object of an edge
C22_Level(n, p) == Abc_NtkObj(n, Abc_ObjId(p)).Level

(***************************************************************************)
(* C22: when balance rebuilds a super-gate, the entries are sorted by      *)
(* level in descending order once, before the loop.  Each turn removes the *)
(* last entry of the list and the entry before it; the entry before it is  *)
(* the one the sort left there or an entry that the permutation has moved  *)
(* there because its AND with the last entry exists already.  In the first *)
(* turn the last entry has the lowest level of all entries, and without a  *)
(* permutation the two entries removed are the two of lowest level.  The   *)
(* AND of the two is inserted back unless it is in the list already, and   *)
(* the loop ends with one entry.                                           *)
(***************************************************************************)
C22_PopLast ==
    /\ (man.stage = "loop" /\ man.vPrev = << >>) =>
          \A i \in 1 .. Len(man.vSuper) - 1 :
              C22_Level(ntk, man.vSuper[i]) >= C22_Level(ntk, man.vSuper[i + 1])
    /\ (man.stage = "loop" /\ man.vPrev # << >>) =>
          LET v == man.vPrev
              n == man.pNtkPrev
              Sorted == \A i \in 1 .. Len(v) - 1 : C22_Level(n, v[i]) >= C22_Level(n, v[i + 1])
              Others == { v[i] : i \in 1 .. Len(v) } \ { man.pNode1, man.pNode2 }
              pAnd == Abc_AigAnd(n, man.pNode1, man.pNode2).res
          IN /\ man.pNode1 = v[Len(v)]
             /\ \E i \in 1 .. Len(v) - 1 : man.pNode2 = v[i]
             /\ \/ man.pNode2 = v[Len(v) - 1]
                \/ Abc_AigAndLookup(n, man.pNode1, man.pNode2) # NULL
             /\ (Sorted /\ man.pNode2 = v[Len(v) - 1]) =>
                    \A e \in Others :
                        /\ C22_Level(n, e) >= C22_Level(n, man.pNode2)
                        /\ C22_Level(n, man.pNode2) >= C22_Level(n, man.pNode1)
             /\ { man.vSuper[i] : i \in 1 .. Len(man.vSuper) } = Others \cup { pAnd }
             /\ Len(man.vSuper) = Cardinality(Others \cup { pAnd })
             /\ Len(man.vSuper) >= 1
             /\ Len(man.vSuper) < Len(v)

\* a turn on a supergate of three entries of three different levels, where
\* the two entries of highest level are not the ones removed
C22_Witness ==
    /\ man.stage = "loop" /\ Len(man.vPrev) >= 3
    /\ \E i \in 1 .. Len(man.vPrev) :
          /\ man.vPrev[i] \notin { man.pNode1, man.pNode2 }
          /\ C22_Level(man.pNtkPrev, man.vPrev[i]) > C22_Level(man.pNtkPrev, man.pNode2)
          /\ C22_Level(man.pNtkPrev, man.pNode2) > C22_Level(man.pNtkPrev, man.pNode1)
    /\ Len(man.vSuper) = Len(man.vPrev) - 1

\* the claim as it was stated: each turn removes the two entries of highest
\* level
C22_PopHighest ==
    (man.stage = "loop" /\ man.vPrev # << >>) =>
        \A i \in 1 .. Len(man.vPrev) :
            man.vPrev[i] \notin { man.pNode1, man.pNode2 } =>
                /\ C22_Level(man.pNtkPrev, man.vPrev[i]) <= C22_Level(man.pNtkPrev, man.pNode1)
                /\ C22_Level(man.pNtkPrev, man.vPrev[i]) <= C22_Level(man.pNtkPrev, man.pNode2)

(***************************************************************************)
(* C23: for every AND root and every leaf budget that the commands accept  *)
(* (refactor -N from 0 to 15, resub -K from 4 to 16) Abc_NodeFindCut       *)
(* returns leaves whose number does not exceed the budget; the assertion   *)
(* after its loop tests the same bound.                                    *)
(***************************************************************************)
C23_LeafBudget ==
    \A pRoot \in Abc_NtkNodeIds(ntk) :
        /\ \A nNodeSizeMax \in 0 .. 15 :
              LET Within(c) == c.ok => Len(c.vLeaves) <= nNodeSizeMax
              IN Within(Abc_NodeFindCut(ntk, pRoot, nNodeSizeMax, 2))
        /\ \A nCutMax \in 4 .. 16 :
              LET Within(c) == c.ok => Len(c.vLeaves) <= nCutMax
              IN Within(Abc_NodeFindCut(ntk, pRoot, nCutMax, 100000))

(***************************************************************************)
(* The loop of Dar_ManRewrite (darCore.c) on one AIG manager.  An output   *)
(* is an object of type "CO" whose pFanin0 is the edge to its driver.  The *)
(* manager record holds in man.i the position the iteration continues      *)
(* from, in man.nNodesOld the size of the object array before the loop, in *)
(* man.vTried the Ids of the nodes the loop has tried and in man.vNew the  *)
(* Ids of the nodes that committed replacements created.  The subgraph     *)
(* library is not modelled: a replacement is any edge, or AND of two edges *)
(* below the node, that has the function of the node and does not make the *)
(* manager larger.                                                         *)
(***************************************************************************)
MaxDarCis == 2
MaxDarNodes == 2
MaxDarCos == 1

\* Aig_ObjCreateCo: a new output terminal that refers to its driver
Aig_ObjCreateCo(p, pDriver) ==
    [p EXCEPT !.vObjs = Append([@ EXCEPT ![(pDriver \div 2) + 1].nRefs = @ + 1],
                               [Type |-> "CO", pFanin0 |-> pDriver, pFanin1 |-> NULL,
                                nRefs |-> 0, fPhase |-> 0])]

\* the fanin edges of an object
Aig_ObjFanins(p, id) ==
    { e \in { p.vObjs[id + 1].pFanin0, p.vObjs[id + 1].pFanin1 } : e # NULL }

\* Aig_ObjDelete_rec: the node is taken out of the table and of the object
\* array, and so is every node whose last reference came from a node deleted
RECURSIVE Aig_ObjDelete_rec(_, _)
Aig_ObjDelete_rec(p, id) ==
    LET e0 == p.vObjs[id + 1].pFanin0
        e1 == p.vObjs[id + 1].pFanin1
        Deref(q, e) == [q EXCEPT !.vObjs[(e \div 2) + 1].nRefs = @ - 1]
        Gone(q) == [q EXCEPT !.vObjs[id + 1] = [Type |-> "NONE", pFanin0 |-> NULL,
                                                pFanin1 |-> NULL, nRefs |-> 0, fPhase |-> 0],
                             !.table = @ \ {id}]
        Rec(q, e) == IF q.vObjs[(e \div 2) + 1].Type = "AND" /\ q.vObjs[(e \div 2) + 1].nRefs = 0
                     THEN Aig_ObjDelete_rec(q, e \div 2) ELSE q
        Second(q) == Rec(q, e1)
    IN IF p.vObjs[id + 1].Type # "AND" THEN p
       ELSE Second(Rec(Gone(Deref(Deref(p, e0), e1)), e0))

\* Aig_ManCleanup: the nodes without references are deleted with their cones
Aig_ManCleanup(p) ==
    LET RECURSIVE Clean(_, _)
        Clean(q, i) ==
            IF i >= Len(p.vObjs) THEN q
            ELSE IF p.vObjs[i + 1].Type = "AND" /\ p.vObjs[i + 1].nRefs = 0
                    /\ q.vObjs[i + 1].Type = "AND"
                 THEN Clean(Aig_ObjDelete_rec(q, i), i + 1)
                 ELSE Clean(q, i + 1)
    IN Clean(p, 0)

\* Aig_ObjReplace: every fanout of the old node is rewired to the new edge,
\* complemented where the fanout complemented the old node, and the old node
\* is deleted with its MFFC.  ok tells that no rewired node became trivial
\* or equal to a node of the table.
Aig_ObjReplace(p, pObjOld, pObjNew) ==
    LET Patch(e) == IF e # NULL /\ e \div 2 = pObjOld
                    THEN 2 * (pObjNew \div 2) + (((pObjNew % 2) + (e % 2)) % 2) ELSE e
        Uses(o) == (o.pFanin0 # NULL /\ o.pFanin0 \div 2 = pObjOld)
                   \/ (o.pFanin1 # NULL /\ o.pFanin1 \div 2 = pObjOld)
        New(o) == IF o.Type = "AND"
                  THEN LET g == Aig_ObjCreateGhost(Patch(o.pFanin0), Patch(o.pFanin1))
                       IN [o EXCEPT !.pFanin0 = g.pFanin0, !.pFanin1 = g.pFanin1]
                  ELSE [o EXCEPT !.pFanin0 = Patch(o.pFanin0)]
        nMoved == Cardinality({ << j, k >> \in (1 .. Len(p.vObjs)) \X (0 .. 1) :
                     LET e == IF k = 0 THEN p.vObjs[j].pFanin0 ELSE p.vObjs[j].pFanin1
                     IN e # NULL /\ e \div 2 = pObjOld })
        vObjs == [j \in 1 .. Len(p.vObjs) |->
                    IF Uses(p.vObjs[j]) THEN New(p.vObjs[j])
                    ELSE IF j = pObjOld + 1 THEN [p.vObjs[j] EXCEPT !.nRefs = 0]
                    ELSE IF j = (pObjNew \div 2) + 1 THEN [p.vObjs[j] EXCEPT !.nRefs = @ + nMoved]
                    ELSE p.vObjs[j]] \o << >>
        ok == \A j \in 1 .. Len(p.vObjs) :
                 (Uses(p.vObjs[j]) /\ p.vObjs[j].Type = "AND") =>
                    LET a == Patch(p.vObjs[j].pFanin0)
                        b == Patch(p.vObjs[j].pFanin1)
                    IN /\ a \div 2 # b \div 2
                       /\ a \div 2 # 0 /\ b \div 2 # 0
                       /\ Aig_TableLookup(p, Aig_ObjCreateGhost(a, b)) = NULL
    IN [man |-> Aig_ObjDelete_rec([p EXCEPT !.vObjs = vObjs], pObjOld), ok |-> ok]

\* the function of an edge: the assignments of the inputs under which it is 1
Aig_EdgeTruth(p, e) ==
    LET Cis == { id \in 0 .. Len(p.vObjs) - 1 : p.vObjs[id + 1].Type = "CI" }
        RECURSIVE Val(_, _)
        Val(id, asg) ==
            LET o == p.vObjs[id + 1] IN
            IF o.Type = "CONST1" THEN TRUE
            ELSE IF o.Type = "CI" THEN asg[id]
            ELSE /\ Val(o.pFanin0 \div 2, asg) # (o.pFanin0 % 2 = 1)
                 /\ Val(o.pFanin1 \div 2, asg) # (o.pFanin1 % 2 = 1)
    IN { asg \in [Cis -> BOOLEAN] : Val(e \div 2, asg) # (e % 2 = 1) }

\* the objects in the transitive fanin of an object, the object included
RECURSIVE Aig_ManTfi(_, _)
Aig_ManTfi(p, S) ==
    LET T == S \cup { e \div 2 : e \in UNION { Aig_ObjFanins(p, id) : id \in S } }
    IN IF T = S THEN S ELSE Aig_ManTfi(p, T)

InitDar == aig = Aig_ManStart /\ ntk = Abc_NtkAlloc /\ man = [stage |-> "build"]

\* the manager that Abc_NtkToDar hands over: inputs, nodes, then outputs
DarCreateCi ==
    /\ man.stage = "build"
    /\ Len(aig.vObjs) <= MaxDarCis
    /\ aig' = [aig EXCEPT !.vObjs = Append(@, [Type |-> "CI", pFanin0 |-> NULL,
                                               pFanin1 |-> NULL, nRefs |-> 0, fPhase |-> 0])]
    /\ UNCHANGED << ntk, man >>

DarAnd ==
    \E p0 \in Aig_ManEdges(aig), p1 \in Aig_ManEdges(aig) :
        /\ man.stage = "build"
        /\ Len(aig.vObjs) > MaxDarCis
        /\ Cardinality(Aig_ManAnds(aig)) < MaxDarNodes
        /\ p0 \div 2 < p1 \div 2
        /\ aig' = Aig_And(aig, p0, p1).man
        /\ aig' # aig
        /\ UNCHANGED << ntk, man >>

DarCreateCo ==
    \E pDriver \in Aig_ManEdges(aig) :
        /\ man.stage \in {"build", "outputs"}
        /\ Aig_ManAnds(aig) # {}
        /\ aig.vObjs[(pDriver \div 2) + 1].Type = "AND"
        /\ Cardinality({ id \in 0 .. Len(aig.vObjs) - 1 : aig.vObjs[id + 1].Type = "CO" })
              < MaxDarCos
        /\ aig' = Aig_ObjCreateCo(aig, pDriver)
        /\ man' = [stage |-> "outputs"]
        /\ UNCHANGED ntk

\* Dar_ManRewrite up to its loop
Dar_ManRewriteStart ==
    /\ man.stage = "outputs"
    /\ aig' = Aig_ManCleanup(aig)
    /\ man' = [stage |-> "dar", i |-> 0, nNodesOld |-> Len(aig.vObjs),
               vTried |-> {}, vNew |-> {}]
    /\ UNCHANGED ntk

\* the nodes that the loop has yet to visit: the iteration runs over the
\* object array as it grows and ends at the first node with i > nNodesOld
Dar_ManRewriteNodes ==
    { i \in man.i .. Len(aig.vObjs) - 1 : aig.vObjs[i + 1].Type = "AND" /\ ~(i > man.nNodesOld) }

\* one turn of the loop at a node: no replacement, or a replacement by an
\* edge or by the AND of two edges
Dar_ManRewriteNode ==
    /\ man.stage = "dar"
    /\ Dar_ManRewriteNodes # {}
    /\ \E pObj \in {CHOOSE i \in Dar_ManRewriteNodes : \A o \in Dar_ManRewriteNodes : i <= o} :
       \E below \in {{ e \in Aig_ManEdges(aig) :
                         /\ aig.vObjs[(e \div 2) + 1].Type \in {"CONST1", "CI", "AND"}
                         /\ pObj \notin Aig_ManTfi(aig, {e \div 2}) }} :
       \/ /\ aig' = aig
          /\ man' = [man EXCEPT !.i = pObj + 1, !.vTried = @ \cup {pObj}]
       \/ \E p0 \in below, p1 \in below, c \in 0 .. 1 :
          \E b \in {Aig_And(aig, p0, p1)} :
          \E pObjNew \in {2 * (b.res \div 2) + (((b.res % 2) + c) % 2)} :
          \E r \in {Aig_ObjReplace(b.man, pObj, pObjNew)} :
             /\ p0 \div 2 <= p1 \div 2
             /\ Aig_EdgeTruth(b.man, pObjNew) = Aig_EdgeTruth(aig, 2 * pObj)
             /\ r.ok
             /\ Cardinality(Aig_ManAnds(r.man)) <= Cardinality(Aig_ManAnds(aig))
             /\ aig' = r.man
             /\ man' = [man EXCEPT !.i = pObj + 1, !.vTried = @ \cup {pObj},
                           !.vNew = @ \cup (Aig_ManAnds(r.man) \ Aig_ManAnds(aig))]
    /\ UNCHANGED ntk

\* the part of Dar_ManRewrite after its loop
Dar_ManRewriteStop ==
    /\ man.stage = "dar"
    /\ Dar_ManRewriteNodes = {}
    /\ man' = [man EXCEPT !.stage = "done"]
    /\ UNCHANGED << aig, ntk >>

NextDar ==
    \/ DarCreateCi \/ DarAnd \/ DarCreateCo
    \/ Dar_ManRewriteStart \/ Dar_ManRewriteNode \/ Dar_ManRewriteStop

SpecDar == InitDar /\ [][NextDar]_vars

C25_MffcStopsAtCut ==
    \A pRoot \in Abc_NtkNodeIds(ntk), nSizeLimit \in {2, nLeavesMax} :
        LET Holds(c) ==
              c.ok =>
                LET Stops(vBelow, m, r) ==
                      LET vInside == { m.vInside[i] : i \in 1 .. Len(m.vInside) }
                          vLabel  == { id \in Abc_NtkObjIds(r.ntk) :
                                          r.ntk.vTravIds[id + 1] > ntk.nTravIds }
                      IN /\ m.ok
                         /\ vInside \cap vBelow = {}
                         /\ vInside = NtkMffc(ntk, {pRoot}) \ vBelow
                         /\ m.ret = Cardinality(vInside) /\ m.ret = Len(m.vInside)
                         /\ m.ntk.vObjs = ntk.vObjs
                         /\ r.ok
                         /\ vLabel \cap vBelow = {}
                         /\ vLabel \in {{}, vInside}
                         /\ r.ntk.vObjs = ntk.vObjs
                IN Stops(Abc_NtkTfi(ntk, { c.vLeaves[i] : i \in 1 .. Len(c.vLeaves) }),
                         Abc_NodeMffcInside(ntk, pRoot, c.vLeaves),
                         Abc_NodeRefactor(ntk, pRoot, c.vLeaves, 0,
                                          Dec_GraphCreate(Len(c.vLeaves))))
        IN Holds(Abc_NodeFindCut(ntk, pRoot, nSizeLimit, 100000))

\* a root with a cut that has a node among its leaves which is in the MFFC
\* of the root when no cut limits it
C25_Witness ==
    \E pRoot \in Abc_NtkNodeIds(ntk) :
        LET c == Abc_NodeFindCut(ntk, pRoot, 2, 100000)
            m == Abc_NodeMffcInside(ntk, pRoot, c.vLeaves)
        IN /\ c.ok /\ m.ok
           /\ \E i \in 1 .. Len(c.vLeaves) :
                 /\ Abc_ObjIsNode(ntk, c.vLeaves[i])
                 /\ c.vLeaves[i] \in NtkMffc(ntk, {pRoot})
           /\ m.ret = 1
           /\ Cardinality(NtkMffc(ntk, {pRoot})) > 1

(***************************************************************************)
(* Cut enumeration (opt/cut).  A cut is a record of its ascending leaf     *)
(* list and its signature; the signature word is kept as the set of its    *)
(* set bit positions, so that OR is union and the mask test                *)
(* (a & b) == a is the subset test.  A cut list is the sequence of the     *)
(* linked list, the empty sequence standing for the NULL list.  Truth      *)
(* tables are not part of a cut here: no leaf set depends on them.         *)
(***************************************************************************)
CutVarsMin == 3
CutVarsMaxRewrite == 4
CutKeepMaxRewrite == 250
\* a small cap on the cuts kept at a node, to reach the early exit
MaxKeepSmall == 3

Cut_NodeSign(Node) == {Node % 32}

Cut_CutCreateTriv(Node) == [pLeaves |-> <<Node>>, uSign |-> Cut_NodeSign(Node)]

Cut_CutCheckDominance(pDom, pCut) ==
    \A i \in 1 .. Len(pDom.pLeaves) :
        \E k \in 1 .. Len(pCut.pLeaves) : pDom.pLeaves[i] = pCut.pLeaves[k]

\* the merge loop of Cut_CutMergeTwo without its length limit
RECURSIVE Cut_CutMergeLeaves(_, _)
Cut_CutMergeLeaves(l0, l1) ==
    IF l1 = << >> THEN l0
    ELSE IF l0 = << >> THEN l1
    ELSE IF Head(l0) < Head(l1)
         THEN <<Head(l0)>> \o Cut_CutMergeLeaves(Tail(l0), l1)
    ELSE IF Head(l0) > Head(l1)
         THEN <<Head(l1)>> \o Cut_CutMergeLeaves(l0, Tail(l1))
    ELSE <<Head(l0)>> \o Cut_CutMergeLeaves(Tail(l0), Tail(l1))

\* the leaves of the merged cut, or the empty sequence when the code returns NULL
Cut_CutMergeTwo(Limit, pCut0, pCut1) ==
    LET nLeaves0 == Len(pCut0.pLeaves)
        nLeaves1 == Len(pCut1.pLeaves)
    IN IF nLeaves0 = Limit /\ nLeaves1 = Limit
       THEN IF \E i \in 1 .. nLeaves0 : pCut0.pLeaves[i] # pCut1.pLeaves[i]
            THEN << >> ELSE pCut0.pLeaves
       ELSE IF nLeaves0 = Limit
       THEN IF \E i \in 1 .. nLeaves1 :
                   \A k \in 1 .. nLeaves0 : pCut0.pLeaves[k] # pCut1.pLeaves[i]
            THEN << >> ELSE pCut0.pLeaves
       ELSE LET Bounded(l) == IF Len(l) > Limit THEN << >> ELSE l
            IN Bounded(Cut_CutMergeLeaves(pCut0.pLeaves, pCut1.pLeaves))

Cut_ListStart(nVarsMax) == [a \in 1 .. nVarsMax |-> << >>] \o << >>

Cut_ListAdd(pHead, pCut) ==
    [pHead EXCEPT ![Len(pCut.pLeaves)] = Append(@, pCut)]

RECURSIVE Cut_ListFinish(_)
Cut_ListFinish(pHead) ==
    IF pHead = << >> THEN << >> ELSE Head(pHead) \o Cut_ListFinish(Tail(pHead))

\* the filter with its second loop left out: kept cuts are never removed
Cut_CutFilterOneFirstLoop(pHead, pCut, nVarsMax) ==
    LET nLeaves == Len(pCut.pLeaves)
        Dominates(pTemp) == /\ pTemp.uSign \subseteq pCut.uSign
                            /\ Cut_CutCheckDominance(pTemp, pCut)
    IN IF \E a \in 2 .. nLeaves : \E k \in 1 .. Len(pHead[a]) : Dominates(pHead[a][k])
       THEN [ret |-> 1, pHead |-> pHead, nRemoved |-> 0]
       ELSE [ret |-> 0, pHead |-> pHead, nRemoved |-> 0]

\* ret is the returned flag, pHead the super list afterwards, nRemoved the
\* number of kept cuts recycled (the decrease of nNodeCuts)
Cut_CutFilterOne(pHead, pCut, nVarsMax) ==
    LET nLeaves == Len(pCut.pLeaves)
        Dominates(pTemp) == /\ pTemp.uSign \subseteq pCut.uSign
                            /\ Cut_CutCheckDominance(pTemp, pCut)
        Keep(pTemp) == ~ (/\ pCut.uSign \subseteq pTemp.uSign
                          /\ Cut_CutCheckDominance(pCut, pTemp))
        pNew == [a \in 1 .. Len(pHead) |->
                    IF a >= nLeaves + 1 /\ a <= nVarsMax
                    THEN SelectSeq(pHead[a], Keep) ELSE pHead[a]] \o << >>
        Count(h) == Len(Cut_ListFinish(h))
    IN IF \E a \in 2 .. nLeaves : \E k \in 1 .. Len(pHead[a]) : Dominates(pHead[a][k])
       THEN [ret |-> 1, pHead |-> pHead, nRemoved |-> 0]
       ELSE [ret |-> 0, pHead |-> pNew, nRemoved |-> Count(pHead) - Count(pNew)]

\* st is the manager during one node: parameters, super list, nNodeCuts,
\* quit (the limit was reached) and ok (no assertion failed)
Cut_CutProcessTwo(st, pCut0, pCut1) ==
    LET Merged == IF Len(pCut0.pLeaves) >= Len(pCut1.pLeaves)
                  THEN Cut_CutMergeTwo(st.nVarsMax, pCut0, pCut1)
                  ELSE Cut_CutMergeTwo(st.nVarsMax, pCut1, pCut0)
        Add(pCut, f) ==
            IF f.ret = 1 THEN st
            ELSE [st EXCEPT !.pHead = Cut_ListAdd(f.pHead, pCut),
                            !.nNodeCuts = (st.nNodeCuts - f.nRemoved) + 1,
                            !.quit = ((st.nNodeCuts - f.nRemoved) + 1 = st.nKeepMax)]
        Process(l) ==
            IF l = << >> THEN st
            ELSE IF ~ (Len(l) > 1) THEN [st EXCEPT !.ok = FALSE, !.quit = TRUE]
            ELSE LET pCut == [pLeaves |-> l, uSign |-> pCut0.uSign \cup pCut1.uSign]
                 IN Add(pCut, IF st.fFilter
                              THEN Cut_CutFilterOne(st.pHead, pCut, st.nVarsMax)
                              ELSE [ret |-> 0, pHead |-> st.pHead, nRemoved |-> 0])
    IN Process(Merged)

\* the pairs of the four loops, in their order, tagged with the loop
Cut_Pairs(A, B, tag) ==
    [k \in 1 .. Len(A) * Len(B) |->
        [c0 |-> A[((k - 1) \div Len(B)) + 1], c1 |-> B[((k - 1) % Len(B)) + 1],
         loop |-> tag]] \o << >>

Cut_PairsSwapped(B, A, tag) ==
    [k \in 1 .. Len(B) * Len(A) |->
        [c0 |-> A[((k - 1) % Len(A)) + 1], c1 |-> B[((k - 1) \div Len(A)) + 1],
         loop |-> tag]] \o << >>

RECURSIVE Cut_ProcessPairs(_, _)
Cut_ProcessPairs(st, pairs) ==
    IF pairs = << >> \/ st.quit THEN st
    ELSE LET pr == Head(pairs)
             fSkip == \/ pr.loop = 2 /\ ~ (pr.c0.uSign \subseteq pr.c1.uSign)
                      \/ pr.loop = 3 /\ ~ (pr.c1.uSign \subseteq pr.c0.uSign)
                      \/ pr.loop = 4 /\ (\/ pr.c0.uSign # pr.c1.uSign
                                         \/ pr.c0.pLeaves # pr.c1.pLeaves)
         IN Cut_ProcessPairs(IF fSkip THEN st
                             ELSE Cut_CutProcessTwo(st, pr.c0, pr.c1), Tail(pairs))

Cut_NodeDoComputeCuts(p, Node, pList0, pList1) ==
    LET Limit == p.nVarsMax
        st0 == [nVarsMax |-> p.nVarsMax, nKeepMax |-> p.nKeepMax, fFilter |-> p.fFilter,
                pHead |-> Cut_ListAdd(Cut_ListStart(p.nVarsMax), Cut_CutCreateTriv(Node)),
                nNodeCuts |-> 1, quit |-> FALSE, ok |-> TRUE]
        Small(l) == SelectSeq(l, LAMBDA c : Len(c.pLeaves) < Limit)
        Large(l) == SelectSeq(l, LAMBDA c : ~ (Len(c.pLeaves) < Limit))
    IN IF pList0 = << >> \/ pList1 = << >> THEN st0
       ELSE Cut_ProcessPairs(st0,
                Cut_Pairs(Small(pList0), Small(pList1), 1)
                \o Cut_Pairs(Small(pList0), Large(pList1), 2)
                \o Cut_PairsSwapped(Small(pList1), Large(pList0), 3)
                \o Cut_Pairs(Large(pList0), Large(pList1), 4))

Cut_NodeReadCutsNew(p, Node) ==
    IF Node >= Len(p.vCutsNew) THEN << >> ELSE p.vCutsNew[Node + 1]

Cut_NodeComputeCuts(p, Node, Node0, Node1) ==
    LET Store(st) ==
            [p EXCEPT !.vCutsNew =
                        [i \in 1 .. (IF Len(@) > Node + 1 THEN Len(@) ELSE Node + 1) |->
                            IF i = Node + 1 THEN Cut_ListFinish(st.pHead)
                            ELSE IF i <= Len(@) THEN @[i] ELSE << >>] \o << >>,
                      !.ok = @ /\ st.ok /\ Cut_NodeReadCutsNew(p, Node) = << >>]
    IN Store(Cut_NodeDoComputeCuts(p, Node, Cut_NodeReadCutsNew(p, Node0),
                                   Cut_NodeReadCutsNew(p, Node1)))

\* the cut manager of the rewriting pass for given parameters: a trivial
\* cut on every combinational input that has a fanout
Abc_NtkStartCutMan(n, nVarsMax, nKeepMax, fFilter) ==
    [nVarsMax |-> nVarsMax, nKeepMax |-> nKeepMax, fFilter |-> fFilter, ok |-> TRUE,
     vCutsNew |-> [i \in 1 .. Len(n.vObjs) |->
                      IF /\ n.vObjs[i].Type \in {"PI", "BO"}
                         /\ Len(n.vObjs[i].vFanouts) > 0
                      THEN << Cut_CutCreateTriv(i - 1) >> ELSE << >>] \o << >>]

Abc_NtkStartCutManForRewrite(n) ==
    Abc_NtkStartCutMan(n, CutVarsMaxRewrite, CutKeepMaxRewrite, TRUE)

\* an object that is not a node and has no cut list makes the code read the
\* fanins of an object without fanins: ok is cleared
RECURSIVE Abc_NodeGetCutsRecursive(_, _, _)
Abc_NodeGetCutsRecursive(p, n, pObj) ==
    IF Cut_NodeReadCutsNew(p, pObj) # << >> THEN p
    ELSE IF ~ Abc_ObjIsNode(n, pObj) THEN [p EXCEPT !.ok = FALSE]
    ELSE LET Get(p1) == Cut_NodeComputeCuts(p1, pObj, Abc_ObjFaninId0(n, pObj),
                                            Abc_ObjFaninId1(n, pObj))
             Get1(p0) == Get(Abc_NodeGetCutsRecursive(p0, n, Abc_ObjFaninId1(n, pObj)))
         IN Get1(Abc_NodeGetCutsRecursive(p, n, Abc_ObjFaninId0(n, pObj)))

\* the cut lists of every node for one choice of the parameters
C26_Params == { <<CutVarsMin, MaxKeepSmall>>, <<CutVarsMin, CutKeepMaxRewrite>>,
                <<CutVarsMaxRewrite, MaxKeepSmall>>,
                <<CutVarsMaxRewrite, CutKeepMaxRewrite>> }

C26_Leaves(pCut) == { pCut.pLeaves[k] : k \in 1 .. Len(pCut.pLeaves) }

C26_NoDominance(pList) ==
    \A i, j \in 1 .. Len(pList) :
        (/\ i # j
         /\ Len(pList[i].pLeaves) > 1
         /\ Len(pList[j].pLeaves) > 1)
        => ~ (C26_Leaves(pList[i]) \subseteq C26_Leaves(pList[j]))

(***************************************************************************)
(* C26: with filtering enabled, the cut list computed for a node holds no   *)
(* two distinct non-trivial cuts such that the leaves of one are a subset   *)
(* of the leaves of the other; the same holds for the lists computed on     *)
(* the way for the nodes below it.                                          *)
(***************************************************************************)
C26_CutsDominanceFree ==
    \A pr \in C26_Params :
        \A pNode \in Abc_NtkNodeIds(ntk) :
            LET Free(p) ==
                    p.ok => /\ Cut_NodeReadCutsNew(p, pNode) # << >>
                            /\ \A id \in 0 .. Len(p.vCutsNew) - 1 :
                                   C26_NoDominance(Cut_NodeReadCutsNew(p, id))
            IN Free(Abc_NodeGetCutsRecursive(
                        Abc_NtkStartCutMan(ntk, pr[1], pr[2], TRUE), ntk, pNode))

\* a node whose computation removed a kept cut that a later cut dominates:
\* without the filter its list holds a dominated pair, with it the list is
\* shorter, and the cuts are computed without a failed assertion
C26_Witness ==
    \E pNode \in Abc_NtkNodeIds(ntk) :
        LET Removed(p, q) ==
                /\ p.ok /\ q.ok
                /\ ~ C26_NoDominance(Cut_NodeReadCutsNew(q, pNode))
                /\ Len(Cut_NodeReadCutsNew(p, pNode)) < Len(Cut_NodeReadCutsNew(q, pNode))
                /\ Len(Cut_NodeReadCutsNew(p, pNode)) > 2
        IN Removed(Abc_NodeGetCutsRecursive(Abc_NtkStartCutManForRewrite(ntk), ntk, pNode),
                   Abc_NodeGetCutsRecursive(
                       Abc_NtkStartCutMan(ntk, CutVarsMaxRewrite, CutKeepMaxRewrite, FALSE),
                       ntk, pNode))

(***************************************************************************)
(* Traversal IDs near the end of their range (aigUtil.c 38-61, aig.h       *)
(* 229-232, abc.h 237-240).  The traversal data of the AIG manager is the  *)
(* record p = [nTravIds, TravId, pData]: the counter, and the TravId and   *)
(* pData fields of the objects by position.  The counters are C ints; the  *)
(* values reached stay below 2^31.                                         *)
(***************************************************************************)
\* (1<<30)-1, the value tested by Aig_ManIncrementTravId
TravIdLimit == 1073741823
\* the number of increments taken on either side of TravIdLimit
MaxTravSteps == 3
\* the number of objects that carry a traversal ID
MaxTravObjs == 2

Aig_ManCleanData(p) == [p EXCEPT !.pData = [i \in 1 .. Len(@) |-> NULL] \o << >>]

Aig_ManIncrementTravId(p) ==
    LET Inc(q) == [q EXCEPT !.nTravIds = @ + 1]
    IN IF p.nTravIds >= TravIdLimit THEN Inc(Aig_ManCleanData(p)) ELSE Inc(p)

Aig_ObjSetTravIdCurrent(p, i) == [p EXCEPT !.TravId[i] = p.nTravIds]

Aig_ObjSetCopy(p, i, pCopy) == [p EXCEPT !.pData[i] = pCopy]

Abc_NodeSetTravIdCurrent(n, id) == [n EXCEPT !.vTravIds[id + 1] = n.nTravIds]

InitTrav ==
    /\ aig = Aig_ManStart
    /\ ntk = [Abc_NtkAlloc EXCEPT !.nTravIds = TravIdLimit - MaxTravSteps]
    /\ man = [stage |-> "trav", nTravIds |-> TravIdLimit - MaxTravSteps,
              TravId |-> [i \in 1 .. MaxTravObjs |-> 0] \o << >>,
              pData |-> [i \in 1 .. MaxTravObjs |-> NULL] \o << >>]

TravIncrement ==
    /\ man.stage = "trav"
    /\ man.nTravIds < TravIdLimit + MaxTravSteps
    /\ man' = Aig_ManIncrementTravId(man)
    /\ UNCHANGED <<aig, ntk>>

TravSetCurrent ==
    /\ man.stage = "trav"
    /\ \E i \in 1 .. MaxTravObjs :
          /\ man.TravId[i] # man.nTravIds
          /\ man' = Aig_ObjSetTravIdCurrent(man, i)
    /\ UNCHANGED <<aig, ntk>>

TravSetCopy ==
    /\ man.stage = "trav"
    /\ \E i \in 1 .. MaxTravObjs :
          /\ man.pData[i] = NULL
          /\ man' = Aig_ObjSetCopy(man, i, Aig_ManConst1)
    /\ UNCHANGED <<aig, ntk>>

\* Abc_NtkIncrementTravId with its assertion: a build with assertions stops
\* when the counter reaches 1<<30, a build without them goes on
TravNtkIncrement ==
    /\ man.stage = "trav"
    /\ ntk.nTravIds < TravIdLimit + MaxTravSteps
    /\ ntk' = Abc_NtkIncrementTravId(ntk)
    /\ IF ntk'.nTravIds < TravIdLimit + 1
       THEN UNCHANGED man
       ELSE \E s \in {"trav", "abort"} : man' = [man EXCEPT !.stage = s]
    /\ UNCHANGED aig

TravNtkSetCurrent ==
    /\ man.stage = "trav"
    /\ ~ Abc_NodeIsTravIdCurrent(ntk, 0)
    /\ ntk' = Abc_NodeSetTravIdCurrent(ntk, 0)
    /\ UNCHANGED <<aig, man>>

NextTrav ==
    \/ TravIncrement
    \/ TravSetCurrent
    \/ TravSetCopy
    \/ TravNtkIncrement
    \/ TravNtkSetCurrent

SpecTrav == InitTrav /\ [][NextTrav]_vars

(***************************************************************************)
(* C27: an increment of a traversal-ID counter that has reached the value   *)
(* tested by the code, (1<<30)-1, leaves the counter at 1 and the stored    *)
(* traversal ID of every object at 0, in the AIG manager and in the         *)
(* network.                                                                 *)
(***************************************************************************)
C27_WrapRestarts ==
    [][ /\ (man.nTravIds >= TravIdLimit /\ man'.nTravIds # man.nTravIds)
           => (/\ man'.nTravIds = 1
               /\ \A i \in 1 .. Len(man'.TravId) : man'.TravId[i] = 0)
        /\ (ntk.nTravIds >= TravIdLimit /\ ntk'.nTravIds # ntk.nTravIds)
           => (/\ ntk'.nTravIds = 1
               /\ \A i \in 1 .. Len(ntk'.vTravIds) : ntk'.vTravIds[i] = 0) ]_vars

(***************************************************************************)
(* C28: when the check at the end of a pass has returned success, the      *)
(* network satisfies the six invariants of the AIG: canonical fanin order, *)
(* no trivial AND, no two ANDs over the same fanin edges, fanout counts    *)
(* equal to the number of objects that use the node, no combinational      *)
(* loop, and consistent phases.  (Equivalently: a violation of any one of  *)
(* them makes the check fail.)                                             *)
(***************************************************************************)
C28_CheckDetects ==
    (man.stage = "done" /\ man.ok) =>
        LET Edge(id, k) == (2 * Abc_NtkObj(ntk, id).vFanins[k])
                              + (IF k = 1 THEN Abc_NtkObj(ntk, id).fCompl0
                                 ELSE Abc_NtkObj(ntk, id).fCompl1)
            Ph(id, k) == (Abc_NtkObj(ntk, Abc_NtkObj(ntk, id).vFanins[k]).fPhase
                            + (IF k = 1 THEN Abc_NtkObj(ntk, id).fCompl0
                               ELSE Abc_NtkObj(ntk, id).fCompl1)) % 2
        IN /\ \A id \in Abc_NtkNodeIds(ntk) :
                  Abc_ObjFaninId0(ntk, id) < Abc_ObjFaninId1(ntk, id)
           /\ \A id \in Abc_NtkNodeIds(ntk) :
                  /\ Abc_ObjFaninId0(ntk, id) # 0 /\ Abc_ObjFaninId1(ntk, id) # 0
                  /\ Abc_ObjFaninId0(ntk, id) # Abc_ObjFaninId1(ntk, id)
           /\ \A a, b \in Abc_NtkNodeIds(ntk) :
                  a # b => <<Edge(a, 1), Edge(a, 2)>> # <<Edge(b, 1), Edge(b, 2)>>
           /\ \A id \in Abc_NtkObjIds(ntk) :
                  Abc_NtkObj(ntk, id).Type \in {"NODE", "CONST1", "PI"}
                      => Abc_ObjFanoutNum(ntk, id) = Cardinality(NtkFanoutObjs(ntk, id))
           /\ Abc_NtkIsAcyclic(ntk)
           /\ \A id \in Abc_NtkNodeIds(ntk) :
                  Abc_NtkObj(ntk, id).fPhase = Ph(id, 1) * Ph(id, 2)

(***************************************************************************)
(* The rewriting pass (abcRewrite.c 56-124, rwrEva.c 52-153).  The cut     *)
(* manager keeps the cut lists by object Id for the whole pass; a          *)
(* replacement creates objects with Abc_NtkCreateObj and deletes objects   *)
(* with Abc_NtkDeleteObj while lists computed earlier are still stored.    *)
(* The library of subgraphs is not part of the sources: it is modelled for *)
(* the class of the AND of four variables, which is the function of every  *)
(* cut of four leaves in a network without complemented edges.             *)
(***************************************************************************)
\* the number of primary inputs of the networks that are rewritten
MaxRwrPis == 4
\* the number of primary outputs of the networks that are rewritten
MaxRwrPos == 2
\* the number of replacements followed in one pass
MaxRwrUpdates == 3

\* the leaves of the cut taken without the test for a deleted object
Rwr_CutFaninsNoCheck(n, pCut) ==
    [k \in 1 .. Len(pCut.pLeaves) |-> 2 * pCut.pLeaves[k]] \o << >>

\* rwrEva.c 84-97: the fanins of the cut by the Ids of its leaves, empty
\* for a bad cut (a leaf whose entry in vObjs is NULL)
Rwr_CutFanins(n, pCut) ==
    IF \E k \in 1 .. Len(pCut.pLeaves) : Abc_NtkObj(n, pCut.pLeaves[k]).Type = "NONE"
    THEN << >>
    ELSE [k \in 1 .. Len(pCut.pLeaves) |-> 2 * pCut.pLeaves[k]] \o << >>

\* the subgraphs of the class of the AND of four variables over the fanins
\* of the cut: the two-level forms and the chains
Rwr_Subgraphs(vFaninsCur) ==
    LET g0 == [Dec_GraphCreate(4) EXCEPT !.pNodes =
                  [i \in 1 .. 4 |-> [Dec_NodeZero EXCEPT !.pFunc = vFaninsCur[i]]] \o << >>]
        E(k) == Dec_EdgeCreate(k, 0)
        Gate(a, b) == [Dec_NodeZero EXCEPT !.eEdge0 = a, !.eEdge1 = b]
        Form(a1, b1, a2, b2, a3, b3) ==
            [g0 EXCEPT !.pNodes = @ \o << Gate(a1, b1), Gate(a2, b2), Gate(a3, b3) >>,
                       !.eRoot = E(6)]
        Perms == { q \in [0 .. 3 -> 0 .. 3] : \A i, j \in 0 .. 3 : i # j => q[i] # q[j] }
    IN { Form(E(q[0]), E(q[1]), E(q[2]), E(q[3]), E(4), E(5)) :
            q \in { q \in Perms : q[0] < q[1] /\ q[2] < q[3] /\ q[0] < q[2] } }
       \cup { Form(E(0), E(1), E(4), E(2), E(5), E(3)) }

(***************************************************************************)
(* Rwr_NodeRewrite (rwrEva.c 52-153): the cuts of the node are computed or *)
(* read from the manager; the first cut (the trivial one) and the cuts of  *)
(* fewer than four leaves are skipped; a cut with a deleted leaf is        *)
(* counted as bad and skipped; a cut with more than two leaves of one      *)
(* fanout is skipped; for the others the MFFC is labeled and the subgraphs *)
(* are counted.  Returns the cut manager, the network after the labelings, *)
(* the number of bad cuts and the evaluated subgraphs with their gains.    *)
(***************************************************************************)
Rwr_NodeRewrite(p, n, pNode) ==
    LET Mark(m, vF) == [m EXCEPT !.vObjs = [j \in 1 .. Len(m.vObjs) |->
                          IF \E k \in 1 .. Len(vF) : vF[k] = 2 * (j - 1)
                          THEN [m.vObjs[j] EXCEPT !.vFanouts = Append(@, NULL)]
                          ELSE m.vObjs[j]] \o << >>]
        Unmark(m, vF) == [m EXCEPT !.vObjs = [j \in 1 .. Len(m.vObjs) |->
                          IF \E k \in 1 .. Len(vF) : vF[k] = 2 * (j - 1)
                          THEN [m.vObjs[j] EXCEPT !.vFanouts = SubSeq(@, 1, Len(@) - 1)]
                          ELSE m.vObjs[j]] \o << >>]
        Counter(m, vF) == Cardinality({ k \in 1 .. Len(vF) :
                                          Abc_ObjFanoutNum(m, Abc_ObjId(vF[k])) = 1 })
        Cands(m1, pCut, vF, nNodesSaved) ==
            { [pCut |-> pCut.pLeaves, pGraph |-> g,
               nGain |-> nNodesSaved - Dec_GraphToNetworkCount(m1, pNode, g, nNodesSaved)] :
                 g \in { g \in Rwr_Subgraphs(vF) :
                           Dec_GraphToNetworkCount(m1, pNode, g, nNodesSaved) # 0 - 1 } }
        RECURSIVE Eval(_, _, _, _, _)
        Labeled(pList, k, bad, cands, vF, l) ==
            Eval(pList, k + 1, Unmark(l.ntk, vF), bad,
                 IF l.ok THEN cands \cup Cands(Unmark(l.ntk, vF), pList[k], vF, l.ret)
                 ELSE cands)
        Eval(pList, k, m, bad, cands) ==
            IF k > Len(pList) THEN [ntk |-> m, nCutsBad |-> bad, cands |-> cands]
            ELSE IF Len(pList[k].pLeaves) < 4 THEN Eval(pList, k + 1, m, bad, cands)
            ELSE IF Rwr_CutFanins(m, pList[k]) = << >>
                 THEN Eval(pList, k + 1, m, bad + 1, cands)
            ELSE IF Counter(m, Rwr_CutFanins(m, pList[k])) > 2
                 THEN Eval(pList, k + 1, m, bad, cands)
            ELSE Labeled(pList, k, bad, cands, Rwr_CutFanins(m, pList[k]),
                         Abc_NodeMffcLabelAig(
                             Abc_NtkIncrementTravId(Mark(m, Rwr_CutFanins(m, pList[k]))),
                             pNode))
        Run(p1) == [p |-> p1] @@ Eval(Cut_NodeReadCutsNew(p1, pNode), 2, n, 0, {})
    IN Run(Abc_NodeGetCutsRecursive(p, n, pNode))

\* the network that is rewritten, as the fanins of its AND nodes in the
\* order of creation: k > 0 is the k-th primary input, k < 0 the node
\* created as number -k
RwrProgram ==
    << <<1, 2>>, <<3, 4>>, <<1, 3>>, <<0 - 1, 0 - 3>>, <<2, 0 - 2>>,
       <<0 - 4, 0 - 5>>, <<1, 0 - 6>>, <<0 - 1, 0 - 2>>, <<2, 0 - 3>>,
       <<0 - 8, 0 - 9>> >>

InitRwr ==
    /\ aig = Aig_ManStart
    /\ ntk = Abc_NtkCreatePis(Abc_NtkAlloc, MaxRwrPis)
    /\ man = [stage |-> "strash"]

\* the next AND node of the network, built by Abc_AigAnd
RwrAnd ==
    LET k == Len(ntk.vObjs) - MaxRwrPis
        Edge(x) == IF x > 0 THEN 2 * x ELSE 2 * (MaxRwrPis - x)
    IN /\ man.stage = "strash"
       /\ Len(ntk.vPos) = 0
       /\ k <= Len(RwrProgram)
       /\ ntk' = Abc_AigAnd(ntk, Edge(RwrProgram[k][1]), Edge(RwrProgram[k][2])).ntk
       /\ UNCHANGED << aig, man >>

RwrCreatePo ==
    \E pDriver \in Abc_NtkNodeIds(ntk) :
        /\ man.stage = "strash"
        /\ Len(ntk.vObjs) - MaxRwrPis > Len(RwrProgram)
        /\ Len(ntk.vPos) < MaxRwrPos
        /\ Abc_ObjFanoutNum(ntk, pDriver) = 0
        /\ ntk' = Abc_ObjAddFanin(Abc_NtkCreateObj(ntk, "PO"), Len(ntk.vObjs), 2 * pDriver)
        /\ UNCHANGED << aig, man >>

\* Abc_NtkRewrite up to its loop (abcRewrite.c 56-81): the dangling nodes
\* are removed, the cut manager is started, nNodes is the number of Ids
Abc_NtkRewriteStart ==
    \E fUseZeros \in 0 .. 1 :
        /\ man.stage = "strash"
        /\ Len(ntk.vPos) > 0
        /\ ntk' = Abc_AigCleanup(ntk)
        /\ man' = [stage |-> "rwr", p |-> Abc_NtkStartCutManForRewrite(ntk'),
                   nNodes |-> Len(ntk'.vObjs), i |-> 0, fUseZeros |-> fUseZeros,
                   nCutsBad |-> 0, nUpdates |-> 0, pCut |-> << >>]
        /\ UNCHANGED aig

\* the node visited next by the loop of Abc_NtkRewrite: the first node from
\* position i on, below nNodes; NULL when the loop ends
Rwr_NextNode ==
    LET S == { id \in Abc_NtkNodeIds(ntk) : id >= man.i /\ id < man.nNodes }
    IN IF S = {} THEN NULL ELSE CHOOSE id \in S : \A o \in S : id <= o

\* one iteration of the loop (abcRewrite.c 82-108): the node is evaluated,
\* and replaced by a subgraph of positive gain, or of zero gain with
\* fUseZeros
Abc_NtkRewriteNode ==
    /\ man.stage = "rwr"
    /\ Rwr_NextNode # NULL
    /\ \E r \in { Rwr_NodeRewrite(man.p, ntk, Rwr_NextNode) } :
          \/ /\ ntk' = r.ntk
             /\ man' = [man EXCEPT !.p = r.p, !.i = Rwr_NextNode + 1,
                                   !.nCutsBad = @ + r.nCutsBad, !.pCut = << >>]
          \/ \E c \in r.cands :
                /\ man.nUpdates < MaxRwrUpdates
                /\ c.nGain > 0 \/ (c.nGain = 0 /\ man.fUseZeros = 1)
                /\ ntk' = Dec_GraphUpdateNetwork(r.ntk, Rwr_NextNode, c.pGraph)
                /\ man' = [man EXCEPT !.p = r.p, !.i = Rwr_NextNode + 1,
                                      !.nCutsBad = @ + r.nCutsBad, !.pCut = c.pCut,
                                      !.nUpdates = @ + 1]
    /\ UNCHANGED aig

\* the end of the pass (abcRewrite.c 109-124): the Ids are reassigned, the
\* levels recomputed and the network checked
Abc_NtkRewriteStop ==
    /\ man.stage = "rwr"
    /\ Rwr_NextNode = NULL
    /\ ntk' = Abc_NtkLevel(Abc_NtkReassignIds(ntk))
    /\ man' = [stage |-> "done", ok |-> Abc_NtkDoCheck(ntk'), nCutsBad |-> man.nCutsBad]
    /\ UNCHANGED aig

NextRwr ==
    \/ RwrAnd
    \/ RwrCreatePo
    \/ Abc_NtkRewriteStart
    \/ Abc_NtkRewriteNode
    \/ Abc_NtkRewriteStop

SpecRwr == InitRwr /\ [][NextRwr]_vars

(***************************************************************************)
(* C29: in every step of a rewriting pass before the renumbering at its    *)
(* end, no object disappears from the array of objects, the object under   *)
(* an Id stays the same object or is deleted, and the Id of a deleted      *)
(* object stays empty; so the Id of a leaf stored in a cut list resolves   *)
(* to the same node or to nothing.  The cut of a committed replacement has *)
(* no leaf that resolved to nothing.                                       *)
(***************************************************************************)
C29_IdsNotReused ==
    [][ man'.stage = "rwr" =>
          /\ Len(ntk'.vObjs) >= Len(ntk.vObjs)
          /\ \A i \in 1 .. Len(ntk.vObjs) :
                ntk'.vObjs[i].Type \in { ntk.vObjs[i].Type, "NONE" }
          /\ man.stage = "rwr" =>
                \A i \in 1 .. Len(man.p.vCutsNew) :
                    \A k \in 1 .. Len(man.p.vCutsNew[i]) :
                        \A j \in 1 .. Len(man.p.vCutsNew[i][k].pLeaves) :
                            LET id == man.p.vCutsNew[i][k].pLeaves[j] IN
                            /\ id < Len(ntk'.vObjs)
                            /\ Abc_NtkObj(ntk', id).Type
                                  \in { Abc_NtkObj(ntk, id).Type, "NONE" }
          /\ man'.pCut # << >> =>
                \A j \in 1 .. Len(man'.pCut) :
                    Abc_NtkObj(ntk, man'.pCut[j]).Type # "NONE" ]_vars

\* a pass that has met a cut with a deleted leaf after a replacement that
\* created objects above the Ids of deleted ones
C29_Witness ==
    /\ man.stage = "rwr"
    /\ man.nCutsBad > 0
    /\ man.nUpdates > 0
    /\ \E i, j \in 1 .. Len(ntk.vObjs) :
          /\ i < j
          /\ ntk.vObjs[i].Type = "NONE"
          /\ j > man.nNodes
          /\ ntk.vObjs[j].Type = "NODE"

(***************************************************************************)
(* The mark bits fMarkA and fMarkB at the return of the helpers that use   *)
(* them (abcReconv.c, abcBalance.c, abcResub.c).  The marks of a network   *)
(* are the sets of the Ids of the objects whose bit is 1; every helper is  *)
(* called with both sets empty.                                            *)
(***************************************************************************)
\* the marks left as they are
Abc_NodesKeepB(fMarkB, vVisited) == fMarkB

\* abcReconv.c 60-66, 79-85 and 98-104
Abc_NodesMark(fMarkA, vVisited) ==
    fMarkA \cup { vVisited[i] : i \in 1 .. Len(vVisited) }

Abc_NodesUnmark(fMarkA, vVisited) ==
    fMarkA \ { vVisited[i] : i \in 1 .. Len(vVisited) }

Abc_NodesUnmarkB(fMarkB, vVisited) ==
    fMarkB \ { vVisited[i] : i \in 1 .. Len(vVisited) }

\* Abc_NodeFindCut (abcReconv.c 149-196) to its return: with fContain the
\* containing cut is grown from a copy of the leaves over the same visited
\* nodes; the marks of the visited nodes are cleared on both paths
Abc_NodeFindCutReturn(n, pRoot, nNodeSizeMax, nNodeFanStop, fContain, nConeSizeMax, nConeFanStop) ==
    LET Done(s) == [vLeaves |-> s.vLeaves, ok |-> s.ok, nVisited |-> Len(s.vVisited),
                    fMarkB |-> Abc_NodesUnmarkB(s.fMarkB, s.vVisited)]
        Contain(s) ==
            IF fContain = 0 \/ ~s.ok THEN Done(s)
            ELSE [Done(Abc_NodeBuildCut(n, s, nConeSizeMax, nConeFanStop))
                     EXCEPT !.vLeaves = s.vLeaves]
    IN Contain(Abc_NodeFindCut(n, pRoot, nNodeSizeMax, nNodeFanStop))

\* Abc_NodeConeCollect with Abc_NodeConeMarkCollect_rec (abcReconv.c
\* 280-320) on s = [vVisited, fMarkA]
Abc_NodeConeCollect(n, ppRoots, vLeaves, fIncludeFanins) ==
    LET RECURSIVE Collect_rec(_, _)
        Push(s, pNode) == [s EXCEPT !.fMarkA = @ \cup {pNode},
                                    !.vVisited = Append(@, pNode)]
        Collect_rec(s, pNode) ==
            IF pNode \in s.fMarkA THEN s
            ELSE IF Abc_ObjIsNode(n, pNode)
            THEN Push(Collect_rec(Collect_rec(s, Abc_ObjFaninId0(n, pNode)),
                                  Abc_ObjFaninId1(n, pNode)), pNode)
            ELSE Push(s, pNode)
        RECURSIVE Roots(_, _)
        Roots(s, i) ==
            IF i > Len(ppRoots) THEN s ELSE Roots(Collect_rec(s, ppRoots[i]), i + 1)
        Unmark(s) == [s EXCEPT !.fMarkA =
                         Abc_NodesUnmark(Abc_NodesUnmark(@, vLeaves), s.vVisited)]
    IN Unmark(Roots([vVisited |-> IF fIncludeFanins = 1 THEN vLeaves ELSE << >>,
                     fMarkA |-> Abc_NodesMark({}, vLeaves)], 1))

\* Abc_NodeBalanceCone (abcBalance.c 206-228) to its return: the marks
\* after the loop over the supergate
Abc_NodeBalanceConeReturn(n, pNode, fDuplicate, fSelective) ==
    LET Done(s) == [RetValue |-> s.RetValue, ok |-> s.ok, nSuper |-> Len(s.vSuper),
                    fMarkB |-> s.fMarkB \ { Abc_ObjId(s.vSuper[i]) :
                                              i \in 1 .. Len(s.vSuper) }]
    IN Done(Abc_NodeBalanceCone_rec(n, [vSuper |-> << >>, fMarkB |-> {},
                                        RetValue |-> 0, ok |-> TRUE],
                                    2 * pNode, 1, fDuplicate, fSelective))

\* the marks of Abc_ManResubCollectDivs (abcResub.c 320-327): the nodes of
\* the MFFC are marked before the cone is collected and unmarked after it,
\* before any return
Abc_ManResubCollectDivsMarkA(vTemp) ==
    Abc_NodesUnmark(Abc_NodesMark({}, vTemp), vTemp)

(***************************************************************************)
(* C30: when Abc_NodeFindCut (with or without the containing cut),         *)
(* Abc_NodeConeCollect, Abc_NodeBalanceCone (also when the supergate holds *)
(* an edge and its complement) or Abc_ManResubCollectDivs returns, having  *)
(* been called on a network without marks, no node of the network has      *)
(* fMarkA or fMarkB set.                                                   *)
(***************************************************************************)
C30_MarksCleared ==
    \A pRoot \in Abc_NtkNodeIds(ntk) :
        /\ \A nNodeSizeMax \in 2 .. 3, fContain \in 0 .. 1 :
              LET Clear(c) ==
                    c.ok =>
                      /\ c.fMarkB = {}
                      /\ \A fIncludeFanins \in 0 .. 1 :
                            Abc_NodeConeCollect(ntk, << pRoot >>, c.vLeaves,
                                                fIncludeFanins).fMarkA = {}
                      /\ Abc_ManResubCollectDivsMarkA(
                            Abc_NodeMffcInside(ntk, pRoot, c.vLeaves).vInside) = {}
              IN Clear(Abc_NodeFindCutReturn(ntk, pRoot, nNodeSizeMax, 2, fContain,
                                             nNodeSizeMax + 1, 1000))
        /\ \A fDuplicate \in 0 .. 1, fSelective \in 0 .. 1 :
              LET Clear(s) == s.ok => s.fMarkB = {}
              IN Clear(Abc_NodeBalanceConeReturn(ntk, pRoot, fDuplicate, fSelective))

\* a network with a node whose supergate holds an edge in both polarities,
\* and a node whose cut was grown over more than the root and its fanins
C30_Witness ==
    /\ \E pRoot \in Abc_NtkNodeIds(ntk) :
          LET Both(s) == s.ok /\ s.RetValue = 0 - 1 /\ s.nSuper > 1
          IN Both(Abc_NodeBalanceConeReturn(ntk, pRoot, 1, 0))
    /\ \E pRoot \in Abc_NtkNodeIds(ntk) :
          LET Grown(c) == c.ok /\ c.nVisited > 3
          IN Grown(Abc_NodeFindCutReturn(ntk, pRoot, 3, 2, 1, 4, 1000))

====
